---------------------------- MODULE Spec2Model ----------------------------
(***************************************************************************)
(* The WATI webhook receiver, the ticket life cycle and the outbound       *)
(* gateway of backend/main.py as a state machine.                          *)
(*                                                                         *)
(* Texts are TLA+ strings; the Python string operations the handlers use   *)
(* (lower, strip, replace, the substring test "in", re.search) are         *)
(* operators over them; the emoji and rules of the messages the code       *)
(* sends are left out of their texts.  The database is one variable per    *)
(* table, a sequence of rows whose index is the primary key.  A request is *)
(* a small program counter machine whose steps are the database            *)
(* statements, commits and gateway calls of its handler, in the handler's  *)
(* order.                                                                  *)
(***************************************************************************)
EXTENDS Integers, Sequences, FiniteSets, TLC

(***************************************************************************)
(* Python values                                                           *)
(***************************************************************************)

\* None where a string is expected (a NULL String/Text column, a missing id)
None == "<None>"

\* NULL in a DateTime column
NoTime == -1

\* JSON values of the webhook body: a key of the dict is a field of the
\* record, a missing key is a missing field
JStr(s) == [t |-> "str", v |-> s]
JBool(b) == [t |-> "bool", v |-> b]
JNull == [t |-> "null"]
JObj(o) == [t |-> "obj", v |-> o]

\* dict.get(key, default)
Get(d, key, default) == IF key \in DOMAIN d THEN d[key] ELSE default

\* dict.get(key): None when the key is missing
GetN(d, key) == Get(d, key, JNull)

\* bool(x) of a JSON value
Truthy(j) ==
    CASE j.t = "str" -> j.v # ""
      [] j.t = "bool" -> j.v
      [] j.t = "obj" -> DOMAIN j.v # {}
      [] OTHER -> FALSE

\* a or b
POr(a, b) == IF Truthy(a) THEN a ELSE b

IsStr(j) == j.t = "str"

\* isinstance(x, dict)
IsDict(j) == j.t = "obj"

\* x == True
EqTrue(j) == j.t = "bool" /\ j.v = TRUE

(***************************************************************************)
(* Python string operations                                                *)
(***************************************************************************)

UpperCase == "ABCDEFGHIJKLMNOPQRSTUVWXYZ"
LowerCase == "abcdefghijklmnopqrstuvwxyz"
Digits == "0123456789"

Char(s, i) == SubSeq(s, i, i)

\* c in s, for a single character c
CharIn(c, s) == \E i \in 1..Len(s) : Char(s, i) = c

IndexIn(c, s) == CHOOSE i \in 1..Len(s) : Char(s, i) = c

LowerChar(c) == IF CharIn(c, UpperCase) THEN Char(LowerCase, IndexIn(c, UpperCase)) ELSE c

\* str.lower()
RECURSIVE Lower(_)
Lower(s) == IF s = "" THEN "" ELSE LowerChar(Char(s, 1)) \o Lower(SubSeq(s, 2, Len(s)))

IsSpace(c) == c = " " \/ c = "\t" \/ c = "\n"

\* str.strip()
Strip(s) ==
    LET keep == {i \in 1..Len(s) : ~IsSpace(Char(s, i))}
    IN  IF keep = {} THEN ""
        ELSE SubSeq(s, CHOOSE i \in keep : \A j \in keep : i <= j,
                       CHOOSE i \in keep : \A j \in keep : j <= i)

\* str.replace(c, "") for a single character c
RECURSIVE Remove(_, _)
Remove(s, c) ==
    IF s = "" THEN ""
    ELSE (IF Char(s, 1) = c THEN "" ELSE Char(s, 1)) \o Remove(SubSeq(s, 2, Len(s)), c)

\* pat in s
Contains(pat, s) ==
    \E i \in 1..(Len(s) + 1 - Len(pat)) : SubSeq(s, i, i + Len(pat) - 1) = pat

\* phone_number.replace("+", "").replace(" ", "").strip()
NormPhone(p) == Strip(Remove(Remove(p, "+"), " "))

(***************************************************************************)
(* Message helpers                                                         *)
(***************************************************************************)

QUERY_BUTTONS == {"i have a query", "have a query", "query", "have query"}

CONCERN_BUTTONS_Fewer == {"have a concern", "raise concern"}
CONCERN_BUTTONS == {"raise a concern", "have a concern", "concern", "raise concern"}

SATISFACTION_YES_RESPONSES == {"yes, resolved", "yes,resolved", "yes resolved", "resolved", "yes"}

SATISFACTION_NO_RESPONSES == {"need more help", "needmorehelp", "need help", "more help", "no"}

CHATBOT_BUTTONS ==
    {"new to platform", "enrolled participant", "more options",
     "lep", "100bm", "mbw", "masterclass", "leadership essentials",
     "100 board members", "master of business warfare", "know more",
     "ask a question", "feedback"}

IGNORE_MESSAGES ==
    {"hi", "hello", "hey", "hii", "hiii", "helloo", "hellooo",
     "good morning", "good night", "good evening", "gm", "gn",
     "morning", "night", "evening", "bye", "byee", "goodbye",
     "thanks", "thank you", "thankyou", "thnx", "thx", "ty",
     "ok", "okay", "k", "oky", "yes", "no", "ya", "yep", "nope", "yup",
     "hmm", "hm", "mm", "cool", "nice", "great", "awesome", "sure",
     "alright", "fine", "good", "bad", "np"}

\* any(btn in message_lower for btn in buttons)
AnyIn(buttons, message_lower) == \E btn \in buttons : Contains(btn, message_lower)

should_ignore_message(message) ==
    Strip(Lower(message)) \in IGNORE_MESSAGES \/ Len(Strip(message)) < 3

\* The three answers of is_satisfaction_response: True, False, None
SatYes == "True"
SatNo == "False"
SatNone == "None"

is_satisfaction_response(message) ==
    LET message_lower == Strip(Lower(message))
    IN  IF message_lower \in SATISFACTION_YES_RESPONSES THEN SatYes
        ELSE IF message_lower \in SATISFACTION_NO_RESPONSES THEN SatNo
        ELSE IF \E y \in SATISFACTION_YES_RESPONSES :
                    Contains(y, message_lower) \/ Contains(message_lower, y) THEN SatYes
        ELSE IF \E n \in SATISFACTION_NO_RESPONSES :
                    Contains(n, message_lower) \/ Contains(message_lower, n) THEN SatNo
        ELSE SatNone

\* The character classes of the pattern of extract_email
EmailLocalChar(c) == CharIn(c, LowerCase \o UpperCase \o Digits \o "._%+-")
EmailDomainChar(c) == CharIn(c, LowerCase \o UpperCase \o Digits \o ".-")
EmailAlpha(c) == CharIn(c, LowerCase \o UpperCase)

\* The matches of [a-zA-Z0-9._%+-]+@[a-zA-Z0-9.-]+\.[a-zA-Z]{2,} in text, as
\* <<first, last>> index pairs, whatever the engine's preference among them
EmailMatches(text) ==
    {m \in (1..Len(text)) \X (1..Len(text)) :
        \E a \in (m[1] + 1)..(m[2] - 4) : \E k \in (a + 2)..(m[2] - 2) :
            /\ Char(text, a) = "@"
            /\ \A i \in m[1]..(a - 1) : EmailLocalChar(Char(text, i))
            /\ \A i \in (a + 1)..(k - 1) : EmailDomainChar(Char(text, i))
            /\ Char(text, k) = "."
            /\ \A i \in (k + 1)..m[2] : EmailAlpha(Char(text, i))}

\* re.search: the leftmost match, and of those the one the greedy
\* quantifiers reach first (the domain is taken as long as it can be, then
\* the letters as long as they can be: the longest match from that start)
extract_email(text) ==
    LET ms == EmailMatches(text)
    IN  IF ms = {} THEN None
        ELSE LET first == CHOOSE i \in {m[1] : m \in ms} : \A m \in ms : i <= m[1]
                 last == CHOOSE j \in {m[2] : m \in ms} :
                             /\ <<first, j>> \in ms
                             /\ \A m \in ms : m[1] = first => m[2] <= j
             IN  SubSeq(text, first, last)

\* str(n) of a natural number
RECURSIVE NumStr(_)
NumStr(n) == IF n < 10 THEN Char(Digits, n + 1) ELSE NumStr(n \div 10) \o Char(Digits, (n % 10) + 1)

\* f"{n:04d}"
Pad4(n) ==
    LET str == NumStr(n)
    IN  IF Len(str) >= 4 THEN str ELSE SubSeq("0000", 1, 4 - Len(str)) \o str

(***************************************************************************)
(* The inputs the model draws from, and the string helpers tabulated over  *)
(* them: a table is evaluated once, and a text outside it is computed.     *)
(***************************************************************************)

Phone == "919000000001"
OtherPhone == "919000000002"
Phones == {Phone, OtherPhone}
SenderName == "Asha"

\* Texts of incoming messages
Texts ==
    {"I have a query", "raise a concern", "my invoice is wrong", "yes, resolved",
     "Need More Help", "know more", "lep"}

\* Texts of messages the bot sent
BotTexts == {"Welcome to the Iron Lady platform", "Thrilled to inform you: registration for MBW"}

\* Texts that hold a satisfaction phrase and a button phrase at once
MixedTexts == {"no concern", "yes I have a query"}

\* Texts that hold an email address
MailTexts == {"my mail is a@b.co", "write to c@d.io"}

\* A casual greeting and a text shorter than 3 characters
CasualTexts == {"hi", "oh"}

KnownTexts == Texts \cup BotTexts \cup MixedTexts \cup MailTexts \cup CasualTexts \cup {""}

\* The ways the provider may write Phone
Spellings == {Phone, "+" \o Phone, "+91 9000 000001"}

KnownPhones == Phones \cup {"+" \o ph : ph \in Phones} \cup Spellings

LowerTable == [text \in KnownTexts |-> Strip(Lower(text))]
SatisfactionTable == [text \in KnownTexts |-> is_satisfaction_response(text)]
EmailTable == [text \in KnownTexts |-> extract_email(text)]
IgnoreTable == [text \in KnownTexts |-> should_ignore_message(text)]
ButtonTable ==
    [text \in KnownTexts |->
        [query |-> AnyIn(QUERY_BUTTONS, Strip(Lower(text))),
         concern |-> AnyIn(CONCERN_BUTTONS, Strip(Lower(text))),
         chatbot |-> AnyIn(CHATBOT_BUTTONS, Strip(Lower(text)))]]
PhoneTable == [ph \in KnownPhones |-> NormPhone(ph)]
PlainPhoneTable == [ph \in KnownPhones |-> Remove(Remove(ph, "+"), " ")]

\* message_text.lower().strip()
MessageLower(text) == IF text \in KnownTexts THEN LowerTable[text] ELSE Strip(Lower(text))

Satisfaction(text) ==
    IF text \in KnownTexts THEN SatisfactionTable[text] ELSE is_satisfaction_response(text)

Email(text) == IF text \in KnownTexts THEN EmailTable[text] ELSE extract_email(text)

Ignored(text) == IF text \in KnownTexts THEN IgnoreTable[text] ELSE should_ignore_message(text)

\* any(btn in message_lower for btn in QUERY_BUTTONS), and so on
IsQueryButton(text) ==
    IF text \in KnownTexts THEN ButtonTable[text].query
    ELSE AnyIn(QUERY_BUTTONS, Strip(Lower(text)))

IsConcernButton(text) ==
    IF text \in KnownTexts THEN ButtonTable[text].concern
    ELSE AnyIn(CONCERN_BUTTONS, Strip(Lower(text)))

IsChatbotButton(text) ==
    IF text \in KnownTexts THEN ButtonTable[text].chatbot
    ELSE AnyIn(CHATBOT_BUTTONS, Strip(Lower(text)))

\* phone_number.replace("+", "").replace(" ", "").strip()
Normalized(ph) == IF ph \in KnownPhones THEN PhoneTable[ph] ELSE NormPhone(ph)

\* wa_number.replace("+", "").replace(" ", "")
Plain(ph) == IF ph \in KnownPhones THEN PlainPhoneTable[ph] ELSE Remove(Remove(ph, "+"), " ")


(***************************************************************************)
(* Time.  The clock counts seconds; datetime.utcnow() reads it.            *)
(***************************************************************************)

\* The calendar year the clock starts in, and the length of a year
BaseYear == 2025
SecondsPerYear == 31536000

\* datetime.utcnow().year
YearOf(t) == BaseYear + (t \div SecondsPerYear)

\* The session window of send_ticket_reply, in hours
WindowHours == 24

(***************************************************************************)
(* The store and the provider.  A system state S is a record of the        *)
(* tables (sequences of rows, the index is the id), the year counters, the *)
(* requests the provider has received (sent) and the configured token.     *)
(***************************************************************************)

\* User(phone_number, name, email, participation_level="Unknown")
NewUser(phone, name, email, now) ==
    [phone_number |-> phone, name |-> name, email |-> email,
     participation_level |-> "Unknown", enrolled_program |-> None,
     last_interaction |-> now, has_active_ticket |-> FALSE,
     awaiting_ticket_type |-> None]

\* Ticket(ticket_number, user_id, category, initial_message, status="pending",
\*        last_user_message_at=utcnow())
NewTicket(ticket_number, user_id, category, message_text, now) ==
    [ticket_number |-> ticket_number, user_id |-> user_id, category |-> category,
     initial_message |-> message_text, status |-> "pending",
     created_at |-> now, updated_at |-> now, resolved_at |-> NoTime,
     last_user_message_at |-> now, last_counsellor_reply_at |-> NoTime,
     resolved_by |-> None, resolution_notes |-> None]

\* TicketMessage(ticket_id, direction, message_type, message_text, ...)
NewTicketMessage(ticket_id, direction, message_type, text, media_url, wati_id, sent_by, now) ==
    [ticket_id |-> ticket_id, direction |-> direction, message_type |-> message_type,
     message_text |-> text, media_url |-> media_url, wati_message_id |-> wati_id,
     delivery_status |-> "sent", sent_by |-> sent_by, created_at |-> now,
     delivered_at |-> NoTime, read_at |-> NoTime]

\* WebhookLog(event_type, phone_number, is_outgoing, raw_data, processed=False,
\*            action_taken=None)
NewWebhookLog(event_type, phone, is_outgoing, data, now) ==
    [event_type |-> event_type, phone_number |-> phone, is_outgoing |-> is_outgoing,
     raw_data |-> data, processed |-> FALSE, action_taken |-> None, created_at |-> now]

\* Every status, resolved too
ActiveStatusesWithResolved == {"pending", "in_progress", "awaiting", "resolved"}

\* The statuses get_active_ticket_for_user looks for
ActiveStatuses == {"pending", "in_progress", "awaiting"}

\* db.query(User).filter(User.phone_number == phone).first(): the id, 0 for None
UserIdByPhone(S, phone) ==
    LET ids == {i \in 1..Len(S.users) : S.users[i].phone_number = phone}
    IN  IF ids = {} THEN 0 ELSE CHOOSE i \in ids : \A j \in ids : i <= j

\* The query of get_active_ticket_for_user: the user's tickets in an active
\* status, newest first (created_at desc, the later insert first among equals)
ActiveTicketIdOfUser(S, user_id) ==
    LET ids == {i \in 1..Len(S.tickets) :
                    S.tickets[i].user_id = user_id /\ S.tickets[i].status \in ActiveStatuses}
    IN  IF ids = {} THEN 0
        ELSE CHOOSE i \in ids : \A j \in ids :
                \/ S.tickets[j].created_at < S.tickets[i].created_at
                \/ (S.tickets[j].created_at = S.tickets[i].created_at /\ j <= i)

\* get_active_ticket_for_user without the filter on the user: the newest
\* active ticket of any identity
get_active_ticket_of_anyone(S, phone_number) ==
    LET user_id == UserIdByPhone(S, Normalized(phone_number))
        ids == {i \in 1..Len(S.tickets) : S.tickets[i].status \in ActiveStatuses}
    IN  IF user_id = 0 \/ ids = {} THEN 0
        ELSE CHOOSE i \in ids : \A j \in ids :
                \/ S.tickets[j].created_at < S.tickets[i].created_at
                \/ (S.tickets[j].created_at = S.tickets[i].created_at /\ j <= i)

get_active_ticket_for_user(S, phone_number) ==
    LET user_id == UserIdByPhone(S, Normalized(phone_number))
    IN  IF user_id = 0 THEN 0 ELSE ActiveTicketIdOfUser(S, user_id)

\* db.query(TicketMessage).filter(wati_message_id == message_id).first()
TicketMessageIdByWatiId(S, message_id) ==
    LET ids == {i \in 1..Len(S.msgs) : S.msgs[i].wati_message_id = message_id}
    IN  IF ids = {} THEN 0 ELSE CHOOSE i \in ids : \A j \in ids : i <= j

(***************************************************************************)
(* The gateway.  The provider's answer to a request is an input:           *)
(*   "ok"       200 with result true and a message id                      *)
(*   "ok_noid"  200 with result true and no message id                     *)
(*   "refused"  a non-200 status, or 200 without a success indicator       *)
(*   "error"    timeout, network error or a body that is not JSON          *)
(* A request the gateway makes is appended to S.sent whatever the answer.  *)
(***************************************************************************)

GwAnswers == {"ok", "ok_noid", "refused", "error"}

\* The id the provider gives the message of its n-th request
ProviderId(S) == "wamid" \o NumStr(Len(S.sent) + 1)

\* requests.post(...): one request to the provider
Transmit(S, request, now) == [S EXCEPT !.sent = Append(@, request @@ [at |-> now])]

GwResult(S, answer, with_id) ==
    CASE answer = "ok" ->
            [success |-> TRUE, message_id |-> IF with_id THEN ProviderId(S) ELSE None, error |-> None]
      [] answer = "ok_noid" -> [success |-> TRUE, message_id |-> None, error |-> None]
      [] answer = "refused" -> [success |-> FALSE, message_id |-> None, error |-> "Unknown error"]
      [] OTHER -> [success |-> FALSE, message_id |-> None, error |-> "exception"]

NoToken == [success |-> FALSE, message_id |-> None, error |-> "WATI API token not configured"]

\* One gateway operation that repeats its request when the provider fails
GwCallRetrying(S, request, answer, with_id, now) ==
    IF ~S.token THEN [S |-> S, result |-> NoToken]
    ELSE IF answer \in {"ok", "ok_noid"}
        THEN [S |-> Transmit(S, request, now), result |-> GwResult(S, answer, with_id)]
    ELSE [S |-> Transmit(Transmit(S, request, now), request, now),
          result |-> GwResult(S, answer, with_id)]

\* One gateway operation: no request without a token, else one request and
\* the result read off the answer
GwCall(S, request, answer, with_id, now) ==
    IF ~S.token THEN [S |-> S, result |-> NoToken]
    ELSE [S |-> Transmit(S, request, now), result |-> GwResult(S, answer, with_id)]

send_wati_message(S, phone_number, message, answer, now) ==
    GwCall(S, [op |-> "text", phone |-> Normalized(phone_number), body |-> message],
           answer, TRUE, now)

send_wati_interactive_buttons(S, phone_number, body_text, answer, now) ==
    GwCall(S, [op |-> "buttons", phone |-> Normalized(phone_number), body |-> body_text],
           answer, TRUE, now)

send_wati_media(S, phone_number, media_url, caption, answer, now) ==
    GwCall(S, [op |-> "media", phone |-> Normalized(phone_number), body |-> caption],
           answer, TRUE, now)

assign_to_operator(S, phone_number, answer, now) ==
    GwCall(S, [op |-> "assign", phone |-> Normalized(phone_number), body |-> "Admin@iamironlady.com"],
           answer, FALSE, now)

unassign_operator(S, phone_number, answer, now) ==
    GwCall(S, [op |-> "unassign", phone |-> Normalized(phone_number), body |-> ""],
           answer, FALSE, now)

\* The gateway operation named op
Gateway(S, op, phone_number, body, answer, now) ==
    CASE op = "text" -> send_wati_message(S, phone_number, body, answer, now)
      [] op = "buttons" -> send_wati_interactive_buttons(S, phone_number, body, answer, now)
      [] op = "media" -> send_wati_media(S, phone_number, "", body, answer, now)
      [] op = "assign" -> assign_to_operator(S, phone_number, answer, now)
      [] OTHER -> unassign_operator(S, phone_number, answer, now)

(***************************************************************************)
(* What the provider does with one request, and how the try block of a     *)
(* gateway operation reads it.  requests.post either raises (timeout,      *)
(* connection error) or gives a response with a status code and a body;    *)
(* response.json() raises on a body that is not JSON; result.get raises    *)
(* on JSON that is not an object.  Every exception is caught by the        *)
(* operation's except clause.                                              *)
(***************************************************************************)

\* A body that is not JSON, and a JSON array
NotJson == [t |-> "raw"]
JList == [t |-> "list"]

HttpCodes == {200, 401, 500}

Bodies ==
    {NotJson, JList,
     JObj([result |-> JBool(TRUE), messageId |-> JStr("wamid")]),
     JObj([result |-> JBool(TRUE)]),
     JObj([result |-> JBool(FALSE), message |-> JStr("Invalid number")]),
     JObj([statusString |-> JStr("SENT"), whatsappMessageId |-> JStr("wamid")])}

ProviderReplies ==
    {[kind |-> "timeout"], [kind |-> "network"]}
        \cup {[kind |-> "http", code |-> c, body |-> b] : c \in HttpCodes, b \in Bodies}

\* The success test of an operation on a JSON object
IsSuccess(op, code, result) ==
    IF op = "buttons"
    THEN code = 200 /\ (\/ EqTrue(GetN(result, "result"))
                        \/ GetN(result, "statusString") = JStr("SENT")
                        \/ GetN(result, "whatsappMessageId") # JNull)
    ELSE code = 200 /\ Truthy(GetN(result, "result"))

\* result.get("messageId") or ... or result.get("id")
MessageIdIn(op, result) ==
    IF op = "buttons"
    THEN POr(POr(GetN(result, "messageId"), GetN(result, "whatsappMessageId")), GetN(result, "id"))
    ELSE POr(GetN(result, "messageId"), GetN(result, "id"))

\* The try block with the status code left out of the success test
ProviderAnswerAnyStatus(op, reply) ==
    IF reply.kind # "http" THEN "error"
    ELSE IF ~IsDict(reply.body) THEN "error"
    ELSE IF IsSuccess(op, 200, reply.body.v)
         THEN IF IsStr(MessageIdIn(op, reply.body.v)) THEN "ok" ELSE "ok_noid"
         ELSE "refused"

\* The try block of a gateway operation: the answer it reads off a reply
ProviderAnswer(op, reply) ==
    IF reply.kind # "http" THEN "error"
    ELSE IF ~IsDict(reply.body) THEN "error"
    ELSE IF IsSuccess(op, reply.code, reply.body.v)
         THEN IF IsStr(MessageIdIn(op, reply.body.v)) THEN "ok" ELSE "ok_noid"
         ELSE "refused"

\* One gateway operation against a provider that replies with reply
Invoke(S, op, phone_number, body, reply, now) ==
    Gateway(S, op, phone_number, body, ProviderAnswer(op, reply), now)


(***************************************************************************)
(* Requests.  A request in flight is a record r: its input, its program    *)
(* counter pc and the handler's local variables.  An operator named after  *)
(* a step of a handler takes the system state S, the request r and the     *)
(* clock, and gives [S |-> the state after, r |-> the request after].      *)
(*                                                                         *)
(* Store failures are an input of the request: its failFrom-th commit      *)
(* raises (0: none does), and with outage every later commit raises too.   *)
(* A commit that raises leaves the store as it was (the session rolls its  *)
(* pending changes back).  Gateway answers are an input too: the sequence  *)
(* answers is read one per gateway call.                                   *)
(***************************************************************************)

\* HTTP responses: a JSON body with a status tag, or an error status
Respond(r, code, status) == [r EXCEPT !.pc = "done", !.resp = [code |-> code, status |-> status]]

Fails(r) ==
    /\ r.failFrom > 0
    /\ \/ r.ncommit + 1 = r.failFrom
       \/ r.outage /\ r.ncommit + 1 > r.failFrom

\* An exception raised inside the try block of wati_webhook
Raise(r, error) == [r EXCEPT !.pc = "except", !.error = error]

\* db.commit() inside the try block: S_new is the store with the pending
\* changes flushed, r_new the request when the commit returns; violation
\* tells whether the flush breaks a unique constraint
Commit(S, S_new, r, r_new, violation) ==
    IF Fails(r) \/ violation
        THEN [S |-> S, r |-> Raise([r EXCEPT !.ncommit = @ + 1],
                                    IF violation THEN "IntegrityError" ELSE "OperationalError")]
        ELSE [S |-> S_new, r |-> [r_new EXCEPT !.ncommit = r.ncommit + 1]]

\* log.action_taken = ...; log.processed = ... (pending until the commit)
SetLog(S, r, action, processed) ==
    [S EXCEPT !.logs[r.log_id].action_taken = action, !.logs[r.log_id].processed = processed]

\* The request a POST /webhook/wati starts
WebhookRequest(data, failFrom, outage, answers) ==
    [op |-> "webhook", pc |-> "begin", data |-> data,
     failFrom |-> failFrom, outage |-> outage, answers |-> answers, given |-> answers,
     ncommit |-> 0,
     wa_number |-> JStr(""), sender_name |-> None, event_type |-> JStr(""),
     message_text |-> "", message_lower |-> "", message_id |-> JNull,
     is_outgoing |-> FALSE, log_id |-> 0,
     user_id |-> 0, user |-> NewUser("", None, None, 0),
     active_id |-> 0, active_status |-> None,
     year |-> 0, has_counter |-> FALSE, counter_val |-> 0, category |-> None,
     ticket_number |-> None, ticket_id |-> 0,
     stage |-> 1, calls |-> <<>>, action |-> None, status |-> None, error |-> None,
     resp |-> [code |-> 0, status |-> None]]

\* The event types of delivery-status webhooks
StatusEvents ==
    {"templateMessageFailed", "sentMessageDELIVERED", "sentMessageREAD",
     "sent", "delivered", "read", "failed"}

\* The event types that mark a message the bot sent
SentEvents == {"sessionMessageSent", "session_message_sent", "message_sent"}

\* event_type in [...]
EventIn(event_type, names) == IsStr(event_type) /\ event_type.v \in names

\* str(x) of a JSON value, as far as is_outgoing needs it
PyStr(j) ==
    CASE j.t = "str" -> j.v
      [] j.t = "bool" -> IF j.v THEN "True" ELSE "False"
      [] j.t = "null" -> "None"
      [] OTHER -> "{...}"

\* obj.get("title", "") of a value that must be a dict, else ""
TitleOf(j, key) == IF IsDict(j) THEN Get(j.v, key, JStr("")) ELSE JStr("")

\* The button text of the body, from the formats WATI uses (lines 593-615)
ButtonText(data) ==
    LET b1 == POr(POr(GetN(data, "buttonText"), GetN(data, "listResponseTitle")), JStr(""))
        b2 == IF Truthy(b1) THEN b1 ELSE TitleOf(GetN(data, "button"), "text")
        b3 == IF Truthy(b2) THEN b2
              ELSE IF IsDict(GetN(data, "interactive"))
                   THEN TitleOf(GetN(GetN(data, "interactive").v, "button_reply"), "title")
                   ELSE b2
        b4 == IF Truthy(b3) THEN b3 ELSE TitleOf(GetN(data, "listReply"), "title")
        b5 == IF Truthy(b4) THEN b4 ELSE TitleOf(GetN(data, "buttonReply"), "title")
    IN  b5

\* message_text after the button text has replaced it (lines 589, 617-618)
MessageText(data) ==
    IF Truthy(ButtonText(data)) THEN ButtonText(data)
    ELSE POr(Get(data, "text", JStr("")), JStr(""))

\* is_outgoing (lines 622-628)
IsOutgoing(data) ==
    \/ EqTrue(Get(data, "owner", JBool(FALSE)))
    \/ EqTrue(Get(data, "isFromMe", JBool(FALSE)))
    \/ EqTrue(Get(data, "fromMe", JBool(FALSE)))
    \/ Lower(PyStr(Get(data, "owner", JStr("")))) = "true"
    \/ EventIn(Get(data, "eventType", JStr("")), SentEvents)

\* The routing without the test for a phone number of lines 680-684
RouteAnyPhone(r) ==
    IF ~IsStr(r.wa_number) THEN Raise(r, "AttributeError")
    ELSE LET rr == [r EXCEPT !.wa_number = JStr(Plain(r.wa_number.v))]
         IN  IF rr.message_text # "" THEN [rr EXCEPT !.pc = "get_user"]
             ELSE [rr EXCEPT !.pc = "log", !.action = "logged", !.status = "processed"]

\* Lines 680-726 and 873: where the handler goes once the status update is
\* behind it
Route(r) ==
    IF ~Truthy(r.wa_number) THEN [r EXCEPT !.pc = "no_phone"]
    ELSE IF ~IsStr(r.wa_number) THEN Raise(r, "AttributeError")
    ELSE LET rr == [r EXCEPT !.wa_number = JStr(Plain(r.wa_number.v))]
         IN  IF rr.message_text # "" THEN [rr EXCEPT !.pc = "get_user"]
             ELSE [rr EXCEPT !.pc = "log", !.action = "logged", !.status = "processed"]

\* Lines 644-645: a delivery-status event with a message id looks the
\* message up first
AfterBegin(r) ==
    IF EventIn(r.event_type, StatusEvents) /\ Truthy(r.message_id)
        THEN [r EXCEPT !.pc = "status"]
        ELSE Route(r)

\* Lines 586-640, before the try block: read the body, add the log row and
\* commit.  senderName or the message text not being a string raises here,
\* and so does a failing commit: nothing catches either
WBegin(S, r, now) ==
    LET data == r.data
        sender == Get(data, "senderName", JStr(""))
        text == MessageText(data)
        wa_number == POr(POr(GetN(data, "waId"), GetN(data, "waNumber")), JStr(""))
        event_type == Get(data, "eventType", JStr(""))
    IN  IF ~IsStr(sender) \/ ~IsStr(text)
            THEN [S |-> S, r |-> Respond(r, 500, "AttributeError")]
        ELSE IF Fails(r)
            THEN [S |-> S, r |-> Respond([r EXCEPT !.ncommit = @ + 1], 500, "OperationalError")]
        ELSE LET name == Strip(Remove(sender.v, "~"))
                 log == NewWebhookLog(event_type, wa_number, IsOutgoing(data), data, now)
             IN  [S |-> [S EXCEPT !.logs = Append(@, log)],
                  r |-> AfterBegin(
                        [r EXCEPT !.ncommit = @ + 1,
                                  !.wa_number = wa_number,
                                  !.sender_name = IF name = "" THEN None ELSE name,
                                  !.event_type = event_type,
                                  !.message_text = text.v,
                                  !.message_lower = MessageLower(text.v),
                                  !.message_id = POr(GetN(data, "id"), GetN(data, "messageId")),
                                  !.is_outgoing = IsOutgoing(data),
                                  !.log_id = Len(S.logs) + 1])]

\* Lines 644-660 with the filter of line 646 left out: the event updates the
\* first ticket message there is
WStatusUnfiltered(S, r, now) ==
    LET id == IF S.msgs = <<>> THEN 0 ELSE 1
        event == r.event_type.v
        updated ==
            IF event \in {"sentMessageDELIVERED", "delivered"}
                THEN [S EXCEPT !.msgs[id].delivery_status = "delivered", !.msgs[id].delivered_at = now]
            ELSE IF event \in {"sentMessageREAD", "read"}
                THEN [S EXCEPT !.msgs[id].delivery_status = "read", !.msgs[id].read_at = now]
            ELSE IF event \in {"templateMessageFailed", "failed"}
                THEN [S EXCEPT !.msgs[id].delivery_status = "failed"]
            ELSE S
    IN  IF id = 0 THEN [S |-> S, r |-> Route(r)]
        ELSE Commit(S, updated, r,
                    [r EXCEPT !.pc = "log", !.action = "ticket_message_" \o event,
                              !.status = "processed"], FALSE)

\* Lines 644-660: a delivery-status event whose id is a ticket message's
\* updates that message and commits.  No BroadcastMessage row is ever
\* written, so the lookup of lines 662-678 finds nothing
WStatus(S, r, now) ==
    LET id == IF IsStr(r.message_id) THEN TicketMessageIdByWatiId(S, r.message_id.v) ELSE 0
        event == r.event_type.v
        updated ==
            IF event \in {"sentMessageDELIVERED", "delivered"}
                THEN [S EXCEPT !.msgs[id].delivery_status = "delivered", !.msgs[id].delivered_at = now]
            ELSE IF event \in {"sentMessageREAD", "read"}
                THEN [S EXCEPT !.msgs[id].delivery_status = "read", !.msgs[id].read_at = now]
            ELSE IF event \in {"templateMessageFailed", "failed"}
                THEN [S EXCEPT !.msgs[id].delivery_status = "failed"]
            ELSE S
    IN  IF id = 0 THEN [S |-> S, r |-> Route(r)]
        ELSE Commit(S, updated, r,
                    [r EXCEPT !.pc = "log", !.action = "ticket_message_" \o event,
                              !.status = "processed"], FALSE)

\* Lines 680-684
WNoPhone(S, r, now) ==
    Commit(S, SetLog(S, r, "ignored_no_phone", TRUE), r, Respond(r, 200, "ignored"), FALSE)


\* get_or_create_user, lines 464-465: the SELECT
GuSelect(S, r, now) ==
    LET id == UserIdByPhone(S, Normalized(r.wa_number.v))
    IN  [S |-> S,
         r |-> [r EXCEPT !.pc = "save_user", !.user_id = id,
                         !.user = IF id = 0 THEN @ ELSE S.users[id]]]

\* get_or_create_user's commit followed by the incoming branch whatever the
\* direction of the message
GuCommitAnyDirection(S, r, now) ==
    LET phone == Normalized(r.wa_number.v)
        name == r.sender_name
    IN  IF r.user_id = 0
        THEN Commit(S, [S EXCEPT !.users = Append(@, NewUser(phone, name, None, now))], r,
                    [r EXCEPT !.pc = "lookup", !.user_id = Len(S.users) + 1],
                    UserIdByPhone(S, phone) # 0)
        ELSE Commit(S, [S EXCEPT !.users[r.user_id].last_interaction = now,
                                 !.users[r.user_id].name =
                                     IF name # None /\ r.user.name = None THEN name ELSE @],
                    r, [r EXCEPT !.pc = "lookup"], FALSE)

\* get_or_create_user's commit on a users table without the unique
\* phone_number
GuCommitNotUnique(S, r, now) ==
    LET phone == Normalized(r.wa_number.v)
        name == r.sender_name
        next == IF r.is_outgoing THEN "outgoing" ELSE "lookup"
    IN  IF r.user_id = 0
        THEN Commit(S, [S EXCEPT !.users = Append(@, NewUser(phone, name, None, now))], r,
                    [r EXCEPT !.pc = next, !.user_id = Len(S.users) + 1], FALSE)
        ELSE Commit(S, [S EXCEPT !.users[r.user_id].last_interaction = now,
                                 !.users[r.user_id].name =
                                     IF name # None /\ r.user.name = None THEN name ELSE @],
                    r, [r EXCEPT !.pc = next], FALSE)

\* get_or_create_user, lines 467-478: the INSERT of a new user, or the
\* UPDATE of the one the SELECT found, and the commit.  phone_number is
\* unique: inserting a number that is there by now is a violation
GuCommit(S, r, now) ==
    LET phone == Normalized(r.wa_number.v)
        name == r.sender_name
        next == IF r.is_outgoing THEN "outgoing" ELSE "lookup"
    IN  IF r.user_id = 0
        THEN Commit(S, [S EXCEPT !.users = Append(@, NewUser(phone, name, None, now))], r,
                    [r EXCEPT !.pc = next, !.user_id = Len(S.users) + 1],
                    UserIdByPhone(S, phone) # 0)
        ELSE Commit(S, [S EXCEPT !.users[r.user_id].last_interaction = now,
                                 !.users[r.user_id].name =
                                     IF name # None /\ r.user.name = None THEN name ELSE @],
                    r, [r EXCEPT !.pc = next], FALSE)

\* add_enrolled_program
add_enrolled_program(user, program) ==
    IF user.enrolled_program = None \/ user.enrolled_program = ""
        THEN [user EXCEPT !.enrolled_program = program]
    ELSE IF ~Contains(program, user.enrolled_program)
        THEN [user EXCEPT !.enrolled_program = @ \o "," \o program]
    ELSE user

\* The program an enrolment confirmation names (lines 694-701), None for none
EnrolledProgramIn(message_lower) ==
    IF Contains("leadership essentials", message_lower) THEN "LEP"
    ELSE IF Contains("100 board", message_lower) THEN "100BM"
    ELSE IF Contains("business warfare", message_lower) \/ Contains("mbw", message_lower) THEN "MBW"
    ELSE IF Contains("masterclass", message_lower) THEN "Masterclass"
    ELSE None

\* The course a bot message describes (lines 704-711), None for none
CourseIn(message_lower) ==
    IF Contains("leadership essentials program enables you to master", message_lower) THEN "LEP"
    ELSE IF Contains("100 board members program enables you to focus", message_lower) THEN "100BM"
    ELSE IF Contains("master of business warfare focuses on winning", message_lower) THEN "MBW"
    ELSE IF Contains("iron lady leadership masterclass helps you", message_lower) THEN "Masterclass"
    ELSE None

\* update_course_interest
update_course_interest(S, user_id, course_name, now) ==
    LET ids == {i \in 1..Len(S.interests) :
                    S.interests[i].user_id = user_id /\ S.interests[i].course_name = course_name}
    IN  IF ids # {}
        THEN LET i == CHOOSE i \in ids : \A j \in ids : i <= j
             IN  [S EXCEPT !.interests[i].click_count = @ + 1, !.interests[i].last_clicked = now]
        ELSE [S EXCEPT !.interests = Append(@,
                  [user_id |-> user_id, course_name |-> course_name, click_count |-> 1,
                   last_clicked |-> now])]

\* The commits of the outgoing branch (lines 692-719), in order; a stage
\* whose condition is false commits nothing and is passed over
OutStages == <<"enrol", "interest", "welcome", "ask">>

OutApplies(stage, message_lower) ==
    CASE stage = "enrol" ->
            Contains("thrilled to inform", message_lower) /\ Contains("registration", message_lower)
      [] stage = "interest" -> CourseIn(message_lower) # None
      [] stage = "welcome" -> Contains("welcome to the iron lady platform", message_lower)
      [] OTHER -> Contains("ask a question here", message_lower)

\* The first stage from the n-th on that applies, 0 when none does
OutNext(n, message_lower) ==
    LET later == {i \in n..Len(OutStages) : OutApplies(OutStages[i], message_lower)}
    IN  IF later = {} THEN 0 ELSE CHOOSE i \in later : \A j \in later : i <= j

\* Lines 689-723: the message is one the bot sent.  One step per commit
WOutgoing(S, r, now) ==
    LET n == OutNext(r.stage, r.message_lower)
        u == r.user_id
        program == EnrolledProgramIn(r.message_lower)
        enrolled ==
            LET user == [S.users[u] EXCEPT !.participation_level = "Enrolled Participant"]
            IN  IF program = None THEN user ELSE add_enrolled_program(user, program)
        S_new ==
            CASE OutStages[n] = "enrol" -> [S EXCEPT !.users[u] = enrolled]
              [] OutStages[n] = "interest" ->
                    update_course_interest(S, u, CourseIn(r.message_lower), now)
              [] OutStages[n] = "welcome" ->
                    [S EXCEPT !.users[u].participation_level = "New to platform"]
              [] OTHER -> [S EXCEPT !.users[u].participation_level = "Enrolled Participant"]
    IN  IF n = 0
        THEN Commit(S, SetLog(S, r, None, TRUE), r, Respond(r, 200, "processed"), FALSE)
        ELSE Commit(S, S_new, r, [r EXCEPT !.stage = n + 1], FALSE)


\* The messages the system sends (without their emoji)
TicketCreatedText(ticket_number, category) ==
    "Your ticket " \o ticket_number \o " has been created for this " \o category
        \o ".\n\nOur counsellor will reach out to you within the next 24 hours.\n\nThank you for your patience!"

ResolvedText(ticket_number) ==
    "Thank you for confirming! Your ticket " \o ticket_number
        \o " has been resolved.\n\nWe're glad we could help!"

MoreHelpText == "Please share what additional help you need:"

StillInProgressText(ticket_number) ==
    "Your ticket " \o ticket_number
        \o " is still in progress. Our counsellor will reach you within 24 hours."

\* A gateway call the handler is about to make
Call(op, body) == [op |-> op, body |-> body]

\* An attribute assignment on a loaded row: the UPDATE carries the column
\* only when the value differs from the one the session loaded
Assign(loaded, value, current) == IF loaded = value THEN current ELSE value

\* Lines 730-871 with the test for ignorable messages of line 862 placed
\* before the test for the awaiting marker of line 748
DecideIgnoringFirst(r, user, active_id, active) ==
    LET satisfaction == Satisfaction(r.message_text)
        email == Email(r.message_text)
    IN  IF IsQueryButton(r.message_text)
            THEN [r EXCEPT !.pc = "set_awaiting", !.category = "query",
                           !.action = "set_awaiting_query", !.status = "awaiting_query"]
        ELSE IF IsConcernButton(r.message_text)
            THEN [r EXCEPT !.pc = "set_awaiting", !.category = "concern",
                           !.action = "set_awaiting_concern", !.status = "awaiting_concern"]
        ELSE IF active_id = 0 /\ Ignored(r.message_text)
            THEN [r EXCEPT !.pc = "log", !.status = "processed", !.action = "casual_ignored"]
        ELSE IF user.awaiting_ticket_type \in {"query", "concern"}
            THEN [r EXCEPT !.pc = "counter_select", !.category = user.awaiting_ticket_type,
                           !.status = "ticket_created"]
        ELSE IF active_id # 0 /\ satisfaction = SatYes
            THEN [r EXCEPT !.pc = "resolve", !.status = "ticket_resolved",
                           !.action = "ticket_resolved_" \o active.ticket_number]
        ELSE IF active_id # 0 /\ satisfaction = SatNo
            THEN [r EXCEPT !.pc = "more_help", !.status = "need_more_help",
                           !.action = "need_more_help_" \o active.ticket_number]
        ELSE IF active_id # 0 /\ IsChatbotButton(r.message_text)
            THEN [r EXCEPT !.pc = "log", !.status = "chatbot_button_ignored",
                           !.action = "chatbot_button_ignored"]
        ELSE IF active_id # 0
            THEN [r EXCEPT !.pc = "followup", !.status = "followup_added",
                           !.action = IF active.status = "awaiting"
                                      THEN "ticket_followup_confirmed_" \o active.ticket_number
                                      ELSE "ticket_followup_silent_" \o active.ticket_number]
        ELSE IF email # None
            THEN [r EXCEPT !.pc = "email", !.status = "processed", !.action = "email_captured"]
        ELSE [r EXCEPT !.pc = "log", !.status = "processed", !.action = "message_logged"]

\* Lines 730-871 after the two lookups: which branch the message takes.
\* user is the row and active the ticket row (active_id 0: none) loaded by
\* get_active_ticket_for_user
Decide(r, user, active_id, active) ==
    LET satisfaction == Satisfaction(r.message_text)
        email == Email(r.message_text)
    IN  IF IsQueryButton(r.message_text)
            THEN [r EXCEPT !.pc = "set_awaiting", !.category = "query",
                           !.action = "set_awaiting_query", !.status = "awaiting_query"]
        ELSE IF IsConcernButton(r.message_text)
            THEN [r EXCEPT !.pc = "set_awaiting", !.category = "concern",
                           !.action = "set_awaiting_concern", !.status = "awaiting_concern"]
        ELSE IF user.awaiting_ticket_type \in {"query", "concern"}
            THEN [r EXCEPT !.pc = "counter_select", !.category = user.awaiting_ticket_type,
                           !.status = "ticket_created"]
        ELSE IF active_id # 0 /\ satisfaction = SatYes
            THEN [r EXCEPT !.pc = "resolve", !.status = "ticket_resolved",
                           !.action = "ticket_resolved_" \o active.ticket_number]
        ELSE IF active_id # 0 /\ satisfaction = SatNo
            THEN [r EXCEPT !.pc = "more_help", !.status = "need_more_help",
                           !.action = "need_more_help_" \o active.ticket_number]
        ELSE IF active_id # 0 /\ IsChatbotButton(r.message_text)
            THEN [r EXCEPT !.pc = "log", !.status = "chatbot_button_ignored",
                           !.action = "chatbot_button_ignored"]
        ELSE IF active_id # 0
            THEN [r EXCEPT !.pc = "followup", !.status = "followup_added",
                           !.action = IF active.status = "awaiting"
                                      THEN "ticket_followup_confirmed_" \o active.ticket_number
                                      ELSE "ticket_followup_silent_" \o active.ticket_number]
        ELSE IF email # None
            THEN [r EXCEPT !.pc = "email", !.status = "processed", !.action = "email_captured"]
        ELSE IF Ignored(r.message_text)
            THEN [r EXCEPT !.pc = "log", !.status = "processed", !.action = "casual_ignored"]
        ELSE [r EXCEPT !.pc = "log", !.status = "processed", !.action = "message_logged"]

\* Line 728 (and the reload of the user the commit of line 470 or 478
\* expired): the user row and the active ticket are read
WLookup(S, r, now) ==
    LET user == S.users[r.user_id]
        active_id == get_active_ticket_for_user(S, r.wa_number.v)
        rr == [r EXCEPT !.user = user, !.active_id = active_id,
                        !.active_status = IF active_id = 0 THEN None
                                          ELSE S.tickets[active_id].status]
    IN  [S |-> S,
         r |-> Decide(rr, user, active_id,
                      IF active_id = 0 THEN NewTicket(None, 0, None, "", 0)
                      ELSE S.tickets[active_id])]

\* Lines 731-733 and 739-741: user.awaiting_ticket_type = ...; db.commit()
WSetAwaiting(S, r, now) ==
    Commit(S, [S EXCEPT !.users[r.user_id].awaiting_ticket_type =
                            Assign(r.user.awaiting_ticket_type, r.category, @)],
           r, [r EXCEPT !.pc = "log"], FALSE)

\* generate_ticket_number, lines 450-451: the SELECT of the year's counter
GtnSelect(S, r, now) ==
    LET year == YearOf(now)
    IN  [S |-> S,
         r |-> [r EXCEPT !.pc = "counter_commit", !.year = year,
                         !.has_counter = year \in DOMAIN S.counter,
                         !.counter_val = IF year \in DOMAIN S.counter THEN S.counter[year] ELSE 0]]

\* generate_ticket_number, lines 453-458: the counter the session read is
\* incremented and written (a new row when it found none: year is unique)
GtnCommit(S, r, now) ==
    Commit(S, [S EXCEPT !.counter = [y \in DOMAIN @ \cup {r.year} |->
                                        IF y = r.year THEN r.counter_val + 1 ELSE @[y]]],
           r, [r EXCEPT !.pc = "counter_reload"],
           ~r.has_counter /\ r.year \in DOMAIN S.counter)

\* generate_ticket_number, line 459: the commit expired the counter, so
\* last_number is read again for the number returned
GtnReload(S, r, now) ==
    [S |-> S,
     r |-> [r EXCEPT !.pc = "ticket",
                     !.ticket_number = "TKT-" \o NumStr(r.year) \o "-" \o Pad4(S.counter[r.year])]]

\* Lines 752-762: the ticket row and its commit (ticket_number is unique)
WTicket(S, r, now) ==
    Commit(S, [S EXCEPT !.tickets = Append(@,
                   NewTicket(r.ticket_number, r.user_id, r.category, r.message_text, now))],
           r, [r EXCEPT !.pc = "first_message", !.ticket_id = Len(S.tickets) + 1],
           \E i \in 1..Len(S.tickets) : S.tickets[i].ticket_number = r.ticket_number)

\* The first transcript message written with the marker left as it is
WFirstMessageKeepsMarker(S, r, now) ==
    Commit(S, [S EXCEPT !.msgs = Append(@, NewTicketMessage(r.ticket_id, "incoming", "text",
                                     r.message_text, None, None, r.sender_name, now)),
                        !.users[r.user_id].has_active_ticket = TRUE],
           r, [r EXCEPT !.pc = "gateway",
                        !.action = "ticket_created_" \o r.ticket_number,
                        !.calls = <<Call("assign", ""),
                                    Call("text", TicketCreatedText(r.ticket_number, r.category))>>],
           FALSE)

\* Lines 764-774: the first transcript message, the user's marker and flag,
\* and their commit; then the two gateway calls of lines 777-778
WFirstMessage(S, r, now) ==
    Commit(S, [S EXCEPT !.msgs = Append(@, NewTicketMessage(r.ticket_id, "incoming", "text",
                                     r.message_text, None, None, r.sender_name, now)),
                        !.users[r.user_id].awaiting_ticket_type = None,
                        !.users[r.user_id].has_active_ticket = TRUE],
           r, [r EXCEPT !.pc = "gateway",
                        !.action = "ticket_created_" \o r.ticket_number,
                        !.calls = <<Call("assign", ""),
                                    Call("text", TicketCreatedText(r.ticket_number, r.category))>>],
           FALSE)

\* Lines 789-796: satisfaction is True
WResolve(S, r, now) ==
    LET t == r.active_id
    IN  Commit(S, [S EXCEPT !.tickets[t].status = "resolved",
                            !.tickets[t].resolved_at = now,
                            !.tickets[t].updated_at = now,
                            !.users[r.user_id].has_active_ticket =
                                Assign(r.user.has_active_ticket, FALSE, @)],
               r, [r EXCEPT !.pc = "gateway",
                            !.calls = <<Call("text", ResolvedText(S.tickets[t].ticket_number)),
                                        Call("unassign", "")>>],
               FALSE)

\* Lines 803-815: satisfaction is False
WMoreHelp(S, r, now) ==
    LET t == r.active_id
    IN  Commit(S, [S EXCEPT !.msgs = Append(@, NewTicketMessage(t, "incoming", "text",
                                         "[User requested more help]", None, None,
                                         r.sender_name, now)),
                            !.tickets[t].last_user_message_at = now,
                            !.tickets[t].status = Assign(r.active_status, "awaiting", @),
                            !.tickets[t].updated_at = now],
               r, [r EXCEPT !.pc = "gateway", !.calls = <<Call("text", MoreHelpText)>>],
               FALSE)

\* Lines 829-846: a follow-up message on the active ticket
WFollowup(S, r, now) ==
    LET t == r.active_id
        was_awaiting == r.active_status = "awaiting"
    IN  Commit(S, [S EXCEPT !.msgs = Append(@, NewTicketMessage(t, "incoming", "text",
                                         r.message_text, None, None, r.sender_name, now)),
                            !.tickets[t].last_user_message_at = now,
                            !.tickets[t].status = IF was_awaiting THEN "pending" ELSE @,
                            !.tickets[t].updated_at = now],
               r, IF was_awaiting
                  THEN [r EXCEPT !.pc = "gateway",
                                 !.calls = <<Call("text",
                                     StillInProgressText(S.tickets[t].ticket_number))>>]
                  ELSE [r EXCEPT !.pc = "log"],
               FALSE)

\* Lines 853-856: an email address in a message outside any ticket context
WEmail(S, r, now) ==
    LET email == Email(r.message_text)
    IN  Commit(S, [S EXCEPT !.users[r.user_id].email = Assign(r.user.email, email, @)],
               r, [r EXCEPT !.pc = "log"], FALSE)

\* A gateway call whose failure is raised as an exception
WGatewayChecked(S, r, now) ==
    LET call == Head(r.calls)
        answer == IF r.answers = <<>> THEN "ok" ELSE Head(r.answers)
        got == Gateway(S, call.op, r.wa_number.v, call.body, answer, now)
    IN  [S |-> got.S,
         r |-> IF got.result.success
               THEN [r EXCEPT !.calls = Tail(@),
                              !.answers = IF @ = <<>> THEN @ ELSE Tail(@),
                              !.pc = IF Tail(r.calls) = <<>> THEN "log" ELSE "gateway"]
               ELSE Raise(r, got.result.error)]

\* One gateway call of the handler: the results are not looked at
WGateway(S, r, now) ==
    LET call == Head(r.calls)
        answer == IF r.answers = <<>> THEN "ok" ELSE Head(r.answers)
        got == Gateway(S, call.op, r.wa_number.v, call.body, answer, now)
    IN  [S |-> got.S,
         r |-> [r EXCEPT !.calls = Tail(@),
                         !.answers = IF @ = <<>> THEN @ ELSE Tail(@),
                         !.pc = IF Tail(r.calls) = <<>> THEN "log" ELSE "gateway"]]

\* log.action_taken = ...; log.processed = True; db.commit(); return {...}
WLog(S, r, now) ==
    Commit(S, SetLog(S, r, r.action, TRUE), r, Respond(r, 200, r.status), FALSE)

\* The errors a failed flush raises out of db.commit()
StoreErrors == {"IntegrityError", "OperationalError"}

\* Lines 878-882: the except block.  Its own commit is not guarded, and
\* there is no db.rollback() before it: after a commit whose flush failed
\* the session's transaction is inactive, and the commit of line 881 raises
\* (PendingRollbackError; InvalidRequestError in older SQLAlchemy) with the
\* log row as it was
WExcept(S, r, now) ==
    IF r.error \in StoreErrors
        THEN [S |-> S, r |-> Respond([r EXCEPT !.ncommit = @ + 1], 500, "PendingRollbackError")]
    ELSE IF Fails(r)
        THEN [S |-> S, r |-> Respond([r EXCEPT !.ncommit = @ + 1], 500, "OperationalError")]
        ELSE [S |-> SetLog(S, r, "error: " \o r.error, FALSE),
              r |-> Respond([r EXCEPT !.ncommit = @ + 1], 200, "error")]

\* One step of wati_webhook
wati_webhook(S, r, now) ==
    CASE r.pc = "begin" -> WBegin(S, r, now)
      [] r.pc = "status" -> WStatus(S, r, now)
      [] r.pc = "no_phone" -> WNoPhone(S, r, now)
      [] r.pc = "get_user" -> GuSelect(S, r, now)
      [] r.pc = "save_user" -> GuCommit(S, r, now)
      [] r.pc = "outgoing" -> WOutgoing(S, r, now)
      [] r.pc = "lookup" -> WLookup(S, r, now)
      [] r.pc = "set_awaiting" -> WSetAwaiting(S, r, now)
      [] r.pc = "counter_select" -> GtnSelect(S, r, now)
      [] r.pc = "counter_commit" -> GtnCommit(S, r, now)
      [] r.pc = "counter_reload" -> GtnReload(S, r, now)
      [] r.pc = "ticket" -> WTicket(S, r, now)
      [] r.pc = "first_message" -> WFirstMessage(S, r, now)
      [] r.pc = "resolve" -> WResolve(S, r, now)
      [] r.pc = "more_help" -> WMoreHelp(S, r, now)
      [] r.pc = "followup" -> WFollowup(S, r, now)
      [] r.pc = "email" -> WEmail(S, r, now)
      [] r.pc = "gateway" -> WGateway(S, r, now)
      [] r.pc = "log" -> WLog(S, r, now)
      [] r.pc = "except" -> WExcept(S, r, now)


(***************************************************************************)
(* The ticket operator API                                                 *)
(***************************************************************************)

\* An HTTPException, or an exception nothing catches: the request ends
\* with that status code
Abort(r, code, detail) == Respond(r, code, detail)

\* The request a POST /api/tickets/{ticket_id}/reply (media: reply-media)
\* or a PATCH /api/tickets/{ticket_id}/status starts
ApiRequest(op, ticket_id, text, failFrom, outage, answers) ==
    [op |-> op, pc |-> "select", ticket_id |-> ticket_id, text |-> text,
     failFrom |-> failFrom, outage |-> outage, answers |-> answers, given |-> answers,
     ncommit |-> 0,
     ticket |-> NewTicket(None, 0, None, "", 0), phone_number |-> "",
     user_id |-> 0, user |-> NewUser("", None, None, 0),
     result |-> NoToken, resp |-> [code |-> 0, status |-> None]]

\* The window closed at 24 hours sharp
WindowExpiredAtDay(ticket, now) ==
    LET last_msg_time == IF ticket.last_user_message_at # NoTime
                         THEN ticket.last_user_message_at ELSE ticket.created_at
    IN  now - last_msg_time >= WindowHours * 3600

\* hours_since > 24 of lines 1049-1052 and 1104-1107
WindowExpired(ticket, now) ==
    LET last_msg_time == IF ticket.last_user_message_at # NoTime
                         THEN ticket.last_user_message_at ELSE ticket.created_at
    IN  now - last_msg_time > WindowHours * 3600

\* The checks of a reply without the test of a resolved ticket
ReplySelectAnyStatus(S, r, now) ==
    IF r.ticket_id \notin 1..Len(S.tickets)
        THEN [S |-> S, r |-> Abort(r, 404, "Ticket not found")]
    ELSE LET ticket == S.tickets[r.ticket_id]
         IN  IF WindowExpired(ticket, now)
                 THEN [S |-> S, r |-> Abort(r, 400, "24-hour window has expired")]
             ELSE [S |-> S,
                   r |-> [r EXCEPT !.pc = "send", !.ticket = ticket, !.user_id = ticket.user_id,
                                   !.phone_number = S.users[ticket.user_id].phone_number]]

\* Lines 1042-1055 and 1097-1110: the ticket is read and the reply refused
\* for a missing or resolved ticket and outside the window
ReplySelect(S, r, now) ==
    IF r.ticket_id \notin 1..Len(S.tickets)
        THEN [S |-> S, r |-> Abort(r, 404, "Ticket not found")]
    ELSE LET ticket == S.tickets[r.ticket_id]
         IN  IF ticket.status = "resolved"
                 THEN [S |-> S, r |-> Abort(r, 400, "Cannot reply to resolved ticket")]
             ELSE IF WindowExpired(ticket, now)
                 THEN [S |-> S, r |-> Abort(r, 400, "24-hour window has expired")]
             ELSE [S |-> S,
                   r |-> [r EXCEPT !.pc = "send", !.ticket = ticket, !.user_id = ticket.user_id,
                                   !.phone_number = S.users[ticket.user_id].phone_number]]

\* The text the counsellor's reply is sent with (line 1058)
FullMessage(message) ==
    message \o "\n\n-------------------\nAre you satisfied with this response?"

\* The reply's gateway call with its result not looked at
ReplySendUnchecked(S, r, now) ==
    LET answer == IF r.answers = <<>> THEN "ok" ELSE Head(r.answers)
        got == IF r.op = "reply"
               THEN send_wati_interactive_buttons(S, r.phone_number, FullMessage(r.text), answer, now)
               ELSE send_wati_media(S, r.phone_number, "media_url", r.text, answer, now)
    IN  [S |-> got.S,
         r |-> [r EXCEPT !.pc = "commit", !.result = got.result,
                         !.answers = IF @ = <<>> THEN @ ELSE Tail(@)]]

\* Lines 1061 and 1111: the one gateway call whose result the handler reads
ReplySend(S, r, now) ==
    LET answer == IF r.answers = <<>> THEN "ok" ELSE Head(r.answers)
        got == IF r.op = "reply"
               THEN send_wati_interactive_buttons(S, r.phone_number, FullMessage(r.text), answer, now)
               ELSE send_wati_media(S, r.phone_number, "media_url", r.text, answer, now)
    IN  [S |-> got.S,
         r |-> IF got.result.success
               THEN [r EXCEPT !.pc = "commit", !.result = got.result,
                              !.answers = IF @ = <<>> THEN @ ELSE Tail(@)]
               ELSE Abort([r EXCEPT !.result = got.result], 500, "Failed to send")]

\* The commit of a reply with the ticket's status left as it was
ReplyCommitKeepsStatus(S, r, now) ==
    LET t == r.ticket_id
        message == NewTicketMessage(t, "outgoing", IF r.op = "reply" THEN "text" ELSE "image",
                                    r.text, IF r.op = "reply" THEN None ELSE "media_url",
                                    r.result.message_id, "Counsellor", now)
    IN  IF Fails(r)
        THEN [S |-> S, r |-> Abort([r EXCEPT !.ncommit = @ + 1], 500, "OperationalError")]
        ELSE [S |-> [S EXCEPT !.msgs = Append(@, message),
                              !.tickets[t].last_counsellor_reply_at = now,
                              !.tickets[t].updated_at = now],
              r |-> IF r.op = "reply"
                    THEN Respond([r EXCEPT !.ncommit = @ + 1], 200, "Reply sent successfully")
                    ELSE [r EXCEPT !.ncommit = @ + 1, !.pc = "buttons"]]

\* Lines 1064-1076 and 1114-1127: the outgoing transcript message, the
\* ticket's status and reply time, and the commit
ReplyCommit(S, r, now) ==
    LET t == r.ticket_id
        message == NewTicketMessage(t, "outgoing", IF r.op = "reply" THEN "text" ELSE "image",
                                    r.text, IF r.op = "reply" THEN None ELSE "media_url",
                                    r.result.message_id, "Counsellor", now)
    IN  IF Fails(r)
        THEN [S |-> S, r |-> Abort([r EXCEPT !.ncommit = @ + 1], 500, "OperationalError")]
        ELSE [S |-> [S EXCEPT !.msgs = Append(@, message),
                              !.tickets[t].status = Assign(r.ticket.status, "in_progress", @),
                              !.tickets[t].last_counsellor_reply_at = now,
                              !.tickets[t].updated_at = now],
              r |-> IF r.op = "reply"
                    THEN Respond([r EXCEPT !.ncommit = @ + 1], 200, "Reply sent successfully")
                    ELSE [r EXCEPT !.ncommit = @ + 1, !.pc = "buttons"]]

\* Line 1130: the satisfaction buttons after a media reply
ReplyButtons(S, r, now) ==
    LET answer == IF r.answers = <<>> THEN "ok" ELSE Head(r.answers)
        got == send_wati_interactive_buttons(S, r.phone_number,
                   "Are you satisfied with this response?", answer, now)
    IN  [S |-> got.S, r |-> Respond(r, 200, "Media sent successfully")]

\* One step of send_ticket_reply
send_ticket_reply(S, r, now) ==
    CASE r.pc = "select" -> ReplySelect(S, r, now)
      [] r.pc = "send" -> ReplySend(S, r, now)
      [] r.pc = "commit" -> ReplyCommit(S, r, now)

\* One step of send_ticket_media_reply
send_ticket_media_reply(S, r, now) ==
    CASE r.pc = "select" -> ReplySelect(S, r, now)
      [] r.pc = "send" -> ReplySend(S, r, now)
      [] r.pc = "commit" -> ReplyCommit(S, r, now)
      [] r.pc = "buttons" -> ReplyButtons(S, r, now)

\* update_ticket_status, lines 1139-1148: the ticket is read; for the status
\* "resolved" its user is read too and the operator unassigned
StatusSelect(S, r, now) ==
    IF r.ticket_id \notin 1..Len(S.tickets)
        THEN [S |-> S, r |-> Abort(r, 404, "Ticket not found")]
    ELSE LET ticket == S.tickets[r.ticket_id]
             rr == [r EXCEPT !.pc = "commit", !.ticket = ticket, !.user_id = ticket.user_id,
                             !.user = S.users[ticket.user_id],
                             !.phone_number = S.users[ticket.user_id].phone_number]
             answer == IF r.answers = <<>> THEN "ok" ELSE Head(r.answers)
         IN  IF r.text = "resolved"
             THEN [S |-> unassign_operator(S, rr.phone_number, answer, now).S, r |-> rr]
             ELSE [S |-> S, r |-> rr]

\* update_ticket_status, lines 1143-1156: the assignments and the commit
StatusCommit(S, r, now) ==
    LET t == r.ticket_id
        resolved == r.text = "resolved"
    IN  IF Fails(r)
        THEN [S |-> S, r |-> Abort([r EXCEPT !.ncommit = @ + 1], 500, "OperationalError")]
        ELSE [S |-> [S EXCEPT !.tickets[t].status = Assign(r.ticket.status, r.text, @),
                              !.tickets[t].resolved_at = IF resolved THEN now ELSE @,
                              !.tickets[t].updated_at =
                                  IF resolved \/ r.ticket.status # r.text THEN now ELSE @,
                              !.users[r.user_id].has_active_ticket =
                                  IF resolved THEN Assign(r.user.has_active_ticket, FALSE, @)
                                  ELSE @],
              r |-> Respond([r EXCEPT !.ncommit = @ + 1], 200, "success")]

\* One step of update_ticket_status
update_ticket_status(S, r, now) ==
    CASE r.pc = "select" -> StatusSelect(S, r, now)
      [] r.pc = "commit" -> StatusCommit(S, r, now)

\* One step of the request r
Step(S, r, now) ==
    CASE r.op = "webhook" -> wati_webhook(S, r, now)
      [] r.op = "reply" -> send_ticket_reply(S, r, now)
      [] r.op = "reply_media" -> send_ticket_media_reply(S, r, now)
      [] r.op = "update_status" -> update_ticket_status(S, r, now)

\* The request run to its response with no other request in between
RECURSIVE Run(_, _, _)
Run(S, r, now) ==
    IF r.pc = "done" THEN [S |-> S, r |-> r]
    ELSE CHOOSE done \in {Run(next.S, next.r, now) : next \in {Step(S, r, now)}} : TRUE


(***************************************************************************)
(* The state machine.  A request is handled in one action, from its first  *)
(* step to its response, or it is taken in flight and advances one step at *)
(* a time while other requests do the same; the clock advances between the *)
(* steps.                                                                  *)
(***************************************************************************)

VARIABLES
    users,      \* the users table
    tickets,    \* the tickets table
    msgs,       \* the ticket_messages table
    counter,    \* the ticket_counter table: year -> last_number
    interests,  \* the course_interests table
    logs,       \* the webhook_logs table
    sent,       \* the requests the provider has received from the gateway
    token,      \* whether WATI_API_TOKEN is configured
    clock,      \* seconds since the process started
    ticks,      \* how often the clock has advanced
    api_calls,  \* how many operator API requests have been made
    budget,     \* how many webhooks, clock steps and API requests a behaviour has
    inflight,   \* the requests being handled concurrently
    last        \* the request answered last: its input and its response

vars == <<users, tickets, msgs, counter, interests, logs, sent, token, clock, ticks,
          api_calls, budget, inflight, last>>

\* Bounds of the model
MaxWebhooks == 4
MaxTicks == 1
MaxApiCalls == 1
LifeWebhooks == 4
LifeTicks == 1
LifeApiCalls == 1
WindowWebhooks == 2
WindowTicks == 3
WindowApiCalls == 2
FailWebhooks == 3
MaxFailFrom == 3
ConcWebhooks == 3
ClassifyWebhooks == 3
IntakeWebhooks == 3
NumberWebhooks == 4
EmailWebhooks == 4
IdentityWebhooks == 2
RetryWebhooks == 3
StatusWebhooks == 3
RaceWebhooks == 3
MarkerWebhooks == 4
IsolationWebhooks == 4
DeliveryWebhooks == 3
DeliveryTicks == 1
DeliveryApiCalls == 2
MarkerTicks == 1
MarkerApiCalls == 1
RaceApiCalls == 1
StatusApiCalls == 2
RetryApiCalls == 1
IntakeApiCalls == 1
NotifyWebhooks == 4
ReplyWebhooks == 3
ReplyTicks == 1
ReplyApiCalls == 1
RejectWebhooks == 3
RejectTicks == 1
RejectApiCalls == 1
GatewayCalls == 2
CrashWebhooks == 3

\* The system state the handlers work on
State ==
    [users |-> users, tickets |-> tickets, msgs |-> msgs, counter |-> counter,
     interests |-> interests, logs |-> logs, sent |-> sent, token |-> token]

\* The system state becomes S
Becomes(S) ==
    /\ users' = S.users
    /\ tickets' = S.tickets
    /\ msgs' = S.msgs
    /\ counter' = S.counter
    /\ interests' = S.interests
    /\ logs' = S.logs
    /\ sent' = S.sent
    /\ token' = S.token

NoData == [none |-> JNull]

NoRequest ==
    [op |-> "none", data |-> NoData, ticket_id |-> 0, text |-> None, at |-> 0,
     action |-> None, error |-> None, answers |-> <<>>,
     resp |-> [code |-> 0, status |-> None]]

\* What is kept of a finished request: its input and its response
Outcome(r, now) ==
    [op |-> r.op,
     data |-> IF r.op = "webhook" THEN r.data ELSE NoData,
     ticket_id |-> r.ticket_id,
     text |-> IF r.op = "webhook" THEN r.message_text ELSE r.text,
     at |-> now,
     action |-> IF r.op = "webhook" THEN r.action ELSE None,
     error |-> IF r.op = "webhook" THEN r.error ELSE None,
     answers |-> r.given,
     resp |-> r.resp]

\* A fresh deployment with the token configured
Start(webhooks, clock_steps, requests) ==
    /\ users = <<>>
    /\ tickets = <<>>
    /\ msgs = <<>>
    /\ counter = <<>>
    /\ interests = <<>>
    /\ logs = <<>>
    /\ sent = <<>>
    /\ token = TRUE
    /\ clock = 0
    /\ ticks = 0
    /\ api_calls = 0
    /\ budget = [webhooks |-> webhooks, ticks |-> clock_steps, api_calls |-> requests]
    /\ inflight = <<>>
    /\ last = NoRequest

Init == Start(MaxWebhooks, MaxTicks, MaxApiCalls)

\* The request r is handled from its first step to its response
Handle(r) ==
    \E done \in {Run(State, r, clock)} :
        /\ Becomes(done.S)
        /\ last' = Outcome(done.r, clock)
        /\ UNCHANGED inflight

\* Time passes
Tick(d) ==
    /\ ticks < budget.ticks
    /\ clock' = clock + d
    /\ ticks' = ticks + 1
    /\ UNCHANGED <<users, tickets, msgs, counter, interests, logs, sent, token, api_calls,
                   budget, inflight, last>>

\* The provider posts the body data to /webhook/wati
Webhook(data, failFrom, outage, answers) ==
    /\ Len(logs) < budget.webhooks
    /\ Handle(WebhookRequest(data, failFrom, outage, answers))
    /\ UNCHANGED <<clock, ticks, api_calls, budget>>

\* A counsellor posts a reply to a ticket
Reply(op, ticket_id, text, failFrom, answers) ==
    /\ api_calls < budget.api_calls
    /\ api_calls' = api_calls + 1
    /\ Handle(ApiRequest(op, ticket_id, text, failFrom, FALSE, answers))
    /\ UNCHANGED <<clock, ticks, budget>>

\* A counsellor sets a ticket's status
UpdateStatus(ticket_id, status, failFrom, answers) ==
    /\ api_calls < budget.api_calls
    /\ api_calls' = api_calls + 1
    /\ Handle(ApiRequest("update_status", ticket_id, status, failFrom, FALSE, answers))
    /\ UNCHANGED <<clock, ticks, budget>>

\* The webhooks that have arrived: the logged ones and those in flight
\* that have not added their log row yet
Arrived == Len(logs) + Cardinality({i \in 1..Len(inflight) : inflight[i].pc = "begin"})

\* The provider posts the body data to /webhook/wati while other requests
\* are being handled
Arrive(data) ==
    /\ Arrived < budget.webhooks
    /\ inflight' = Append(inflight, WebhookRequest(data, 0, FALSE, <<>>))
    /\ UNCHANGED <<users, tickets, msgs, counter, interests, logs, sent, token, clock, ticks,
                   api_calls, budget, last>>

\* The i-th request in flight takes its next step, and leaves with its
\* response when that was its last
Advance(i) ==
    \E next \in {Step(State, inflight[i], clock)} :
        /\ Becomes(next.S)
        /\ IF next.r.pc = "done"
           THEN /\ inflight' = SubSeq(inflight, 1, i - 1) \o SubSeq(inflight, i + 1, Len(inflight))
                /\ last' = Outcome(next.r, clock)
           ELSE /\ inflight' = [inflight EXCEPT ![i] = next.r]
                /\ UNCHANGED last
        /\ UNCHANGED <<clock, ticks, api_calls, budget>>

\* The id the provider gives its next webhook
FreshId == "in" \o NumStr(Arrived + 1)

\* The body of an incoming message event
Inbound(phone, text, id) ==
    [waId |-> JStr(phone), senderName |-> JStr(SenderName), eventType |-> JStr("message"),
     text |-> JStr(text), id |-> JStr(id)]

\* A user sends a message
UserMessage(text) == Webhook(Inbound(Phone, text, FreshId), 0, FALSE, <<>>)

\* The provider delivers a webhook it has delivered before
Redelivery(i) == Webhook(logs[i].raw_data, 0, FALSE, <<>>)

\* A counsellor replies with a text, and the provider accepts it or not
CounsellorReply(t, answer) == Reply("reply", t, "please check your inbox", 0, <<answer>>)

Next ==
    \/ Tick(60)
    \/ \E text \in Texts : UserMessage(text)
    \/ \E i \in 1..Len(logs) : Redelivery(i)
    \/ \E t \in 1..Len(tickets), answer \in {"ok", "refused"} : CounsellorReply(t, answer)

Spec == Init /\ [][Next]_vars

(***************************************************************************)
(* The life of a ticket: the concern button, a free text and the two       *)
(* satisfaction answers, a minute passing, and a counsellor's reply.       *)
(***************************************************************************)

LifeTexts == {"raise a concern", "my invoice is wrong", "yes, resolved", "Need More Help"}

LifeInit == Start(LifeWebhooks, LifeTicks, LifeApiCalls)

LifeNext ==
    \/ Tick(60)
    \/ \E text \in LifeTexts : UserMessage(text)
    \/ \E t \in 1..Len(tickets) : CounsellorReply(t, "ok")

LifeSpec == LifeInit /\ [][LifeNext]_vars

(***************************************************************************)
(* The reply window: a ticket, the clock moving by a minute or by a minute *)
(* less than a day, and a counsellor's text and media replies.             *)
(***************************************************************************)

\* The steps the clock advances by
Deltas == {60, 86340}

WindowTexts == {"I have a query", "my invoice is wrong"}

\* A counsellor replies with an image and a caption
CounsellorMedia(t, answer) ==
    Reply("reply_media", t, "the corrected invoice", 0, <<answer, "ok">>)

WindowInit == Start(WindowWebhooks, WindowTicks, WindowApiCalls)

WindowNext ==
    \/ \E d \in Deltas : Tick(d)
    \/ \E text \in WindowTexts : UserMessage(text)
    \/ \E t \in 1..Len(tickets), answer \in {"ok", "refused"} : CounsellorReply(t, answer)
    \/ \E t \in 1..Len(tickets) : CounsellorMedia(t, "ok")

WindowSpec == WindowInit /\ [][WindowNext]_vars

(***************************************************************************)
(* Failures: bodies whose fields are not strings, and a store whose        *)
(* commits fail.                                                           *)
(***************************************************************************)

\* {"senderName": null, ...}
NullSenderName(phone, text, id) == [Inbound(phone, text, id) EXCEPT !.senderName = JNull]

\* {"text": {"body": ...}, ...}
TextObject(phone, text, id) ==
    [Inbound(phone, text, id) EXCEPT !.text = JObj([body |-> JStr(text)])]

FailInit == Start(FailWebhooks, 0, 0)

FailNext ==
    \/ \E text \in WindowTexts, failFrom \in 0..MaxFailFrom, outage \in BOOLEAN :
            Webhook(Inbound(Phone, text, FreshId), failFrom, outage, <<>>)
    \/ Webhook(NullSenderName(Phone, "my invoice is wrong", FreshId), 0, FALSE, <<>>)
    \/ Webhook(TextObject(Phone, "my invoice is wrong", FreshId), 0, FALSE, <<>>)

FailSpec == FailInit /\ [][FailNext]_vars

(***************************************************************************)
(* Concurrent handling: webhooks served by more than one worker, each with *)
(* its own database session, their statements and commits interleaving.   *)
(***************************************************************************)

ConcInit == Start(ConcWebhooks, 0, 0)

ConcNext ==
    \/ \E text \in WindowTexts : Arrive(Inbound(Phone, text, FreshId))
    \/ \E i \in 1..Len(logs) : Arrive(logs[i].raw_data)
    \/ \E i \in 1..Len(inflight) : Arrive(inflight[i].data)
    \/ \E i \in 1..Len(inflight) : Advance(i)

ConcSpec == ConcInit /\ [][ConcNext]_vars

(***************************************************************************)
(* Intake: every kind of webhook the provider posts (messages of the user, *)
(* messages the bot sent, delivery-status events, bodies without a phone   *)
(* number or without a text) next to a counsellor's reply and status       *)
(* update.                                                                 *)
(***************************************************************************)

IntakeTexts == {"I have a query", "raise a concern", "my invoice is wrong"}

\* Texts of messages the bot sent, a button label among them
SentTexts == BotTexts \cup {"I have a query"}

\* The ways a body says that the bot sent the message (lines 622-628)
OutgoingMarks ==
    {[owner |-> JBool(TRUE)], [isFromMe |-> JBool(TRUE)], [fromMe |-> JBool(TRUE)],
     [owner |-> JStr("True")], [eventType |-> JStr("sessionMessageSent")]}

\* The provider reports a message the bot sent to the user
BotMessage(text, mark) == Webhook(mark @@ Inbound(Phone, text, FreshId), 0, FALSE, <<>>)

\* The provider reports what became of the outgoing message m
DeliveryStatus(event, m) ==
    /\ msgs[m].wati_message_id # None
    /\ Webhook([waId |-> JStr(Phone), eventType |-> JStr(event),
                id |-> JStr(msgs[m].wati_message_id)], 0, FALSE, <<>>)

\* A body without a phone number
NoPhoneMessage(text) ==
    Webhook([senderName |-> JStr(SenderName), eventType |-> JStr("message"),
             text |-> JStr(text), id |-> JStr(FreshId)], 0, FALSE, <<>>)

\* A body without a text (a picture, a sticker)
EmptyMessage == Webhook([Inbound(Phone, "", FreshId) EXCEPT !.text = JNull], 0, FALSE, <<>>)

\* A counsellor sets the status of a ticket
CounsellorStatus(t, status) == UpdateStatus(t, status, 0, <<"ok">>)

IntakeInit == Start(IntakeWebhooks, 0, IntakeApiCalls)

IntakeNext ==
    \/ \E text \in IntakeTexts : UserMessage(text)
    \/ \E text \in SentTexts, mark \in OutgoingMarks : BotMessage(text, mark)
    \/ \E event \in {"sentMessageDELIVERED", "failed"}, m \in 1..Len(msgs) : DeliveryStatus(event, m)
    \/ \E text \in IntakeTexts : NoPhoneMessage(text)
    \/ EmptyMessage
    \/ \E t \in 1..Len(tickets) : CounsellorReply(t, "ok")
    \/ \E t \in 1..Len(tickets), status \in {"in_progress", "resolved"} : CounsellorStatus(t, status)

IntakeSpec == IntakeInit /\ [][IntakeNext]_vars

(***************************************************************************)
(* Numbering: two identities press a button one after the other and then   *)
(* send their first text while the other's text is being handled.          *)
(***************************************************************************)

FirstText == "my invoice is wrong"

\* The identity with the phone number phone is waiting to send its first
\* text: its marker is set and nothing of it is in flight
Awaiting(phone) ==
    /\ \E u \in 1..Len(users) :
            /\ users[u].phone_number = phone
            /\ users[u].awaiting_ticket_type \in {"query", "concern"}
    /\ \A i \in 1..Len(inflight) : inflight[i].data.waId.v # phone

\* The user with the phone number phone presses a button; nothing else is
\* being handled
PressButton(phone, text) ==
    /\ inflight = <<>>
    /\ \A u \in 1..Len(users) : users[u].phone_number # phone
    /\ Webhook(Inbound(phone, text, FreshId), 0, FALSE, <<>>)

\* The first text of an identity whose marker is set arrives
SendFirstText(phone) ==
    /\ Awaiting(phone)
    /\ Arrive(Inbound(phone, FirstText, FreshId))

NumberInit == Start(NumberWebhooks, 0, 0)

NumberNext ==
    \/ \E phone \in Phones, text \in {"I have a query", "raise a concern"} : PressButton(phone, text)
    \/ \E phone \in Phones : SendFirstText(phone)
    \/ \E i \in 1..Len(inflight) : Advance(i)

NumberSpec == NumberInit /\ [][NumberNext]_vars

(***************************************************************************)
(* Email capture: texts with an email address, before and after a button   *)
(* and a ticket.                                                           *)
(***************************************************************************)

EmailTexts == MailTexts \cup {"I have a query", "my invoice is wrong"}

EmailInit == Start(EmailWebhooks, 0, 0)

EmailNext == \E text \in EmailTexts : UserMessage(text)

EmailSpec == EmailInit /\ [][EmailNext]_vars

(***************************************************************************)
(* Identities: webhooks that write one phone number in several ways,       *)
(* handled while others are being handled.                                 *)
(***************************************************************************)

IdentityInit == Start(IdentityWebhooks, 0, 0)

IdentityNext ==
    \/ \E phone \in Spellings : Arrive(Inbound(phone, "I have a query", FreshId))
    \/ \E i \in 1..Len(inflight) : Advance(i)

IdentitySpec == IdentityInit /\ [][IdentityNext]_vars

(***************************************************************************)
(* Classification: texts that match more than one phrase list.             *)
(***************************************************************************)

ClassifyTexts == {"raise a concern", "my invoice is wrong", "Need More Help"} \cup MixedTexts

ClassifyInit == Start(ClassifyWebhooks, 0, 0)

ClassifyNext == \E text \in ClassifyTexts : UserMessage(text)

ClassifySpec == ClassifyInit /\ [][ClassifyNext]_vars

(***************************************************************************)
(* Notifications and replies against a provider that may fail: every       *)
(* gateway call of a webhook (NotifySpec) or of a counsellor's reply       *)
(* (ReplySpec) gets any of the answers, and the token may be missing.      *)
(***************************************************************************)

\* The user sends a text while the provider answers the handler's gateway
\* calls with first and then second
UserMessageAnswered(text, first, second) ==
    Webhook(Inbound(Phone, text, FreshId), 0, FALSE, <<first, second>>)

\* A counsellor sends a media reply; the provider answers the media call
\* with first and the buttons call with second
CounsellorMediaAnswered(t, first, second) ==
    Reply("reply_media", t, "the corrected invoice", 0, <<first, second>>)

NotifyInit ==
    /\ users = <<>>
    /\ tickets = <<>>
    /\ msgs = <<>>
    /\ counter = <<>>
    /\ interests = <<>>
    /\ logs = <<>>
    /\ sent = <<>>
    /\ token \in BOOLEAN
    /\ clock = 0
    /\ ticks = 0
    /\ api_calls = 0
    /\ budget = [webhooks |-> NotifyWebhooks, ticks |-> 0, api_calls |-> 0]
    /\ inflight = <<>>
    /\ last = NoRequest

\* The answers to the two gateway calls of a webhook: both accepted, the
\* first or the second failing, both failing
NotifyAnswers ==
    {<<"ok", "ok">>, <<"refused", "ok">>, <<"ok", "error">>, <<"error", "refused">>}

NotifyNext ==
    \E text \in LifeTexts, answers \in NotifyAnswers :
        UserMessageAnswered(text, answers[1], answers[2])

NotifySpec == NotifyInit /\ [][NotifyNext]_vars

ReplyTexts == {"raise a concern", "my invoice is wrong", "Need More Help"}

ReplyInit ==
    /\ users = <<>>
    /\ tickets = <<>>
    /\ msgs = <<>>
    /\ counter = <<>>
    /\ interests = <<>>
    /\ logs = <<>>
    /\ sent = <<>>
    /\ token \in BOOLEAN
    /\ clock = 0
    /\ ticks = 0
    /\ api_calls = 0
    /\ budget = [webhooks |-> ReplyWebhooks, ticks |-> ReplyTicks, api_calls |-> ReplyApiCalls]
    /\ inflight = <<>>
    /\ last = NoRequest

ReplyNext ==
    \/ Tick(60)
    \/ \E text \in ReplyTexts : UserMessage(text)
    \/ \E t \in 1..Len(tickets), answer \in GwAnswers : CounsellorReply(t, answer)
    \/ \E t \in 1..Len(tickets), first \in GwAnswers, second \in {"ok", "refused"} :
          CounsellorMediaAnswered(t, first, second)

ReplySpec == ReplyInit /\ [][ReplyNext]_vars

(***************************************************************************)
(* Replies that come too late: a ticket is opened and may be resolved,     *)
(* a minute or more than a day passes, and a counsellor replies.           *)
(***************************************************************************)

RejectTexts == {"raise a concern", "my invoice is wrong", "yes, resolved"}

\* A minute, and a day and a minute
Waits == {60, 86460}

RejectInit == Start(RejectWebhooks, RejectTicks, RejectApiCalls)

RejectNext ==
    \/ \E d \in Waits : Tick(d)
    \/ \E text \in RejectTexts : UserMessage(text)
    \/ \E t \in 1..Len(tickets) : CounsellorReply(t, "ok")
    \/ \E t \in 1..Len(tickets) : CounsellorMedia(t, "ok")

RejectSpec == RejectInit /\ [][RejectNext]_vars

(***************************************************************************)
(* The gateway on its own: each operation against every reply of the       *)
(* provider, with and without a token configured.                          *)
(***************************************************************************)

GwOps == {"text", "buttons", "media", "assign", "unassign"}

\* A caller invokes a gateway operation and keeps what it returned
InvokeGateway(op, reply) ==
    /\ api_calls < budget.api_calls
    /\ api_calls' = api_calls + 1
    /\ \E got \in {Invoke(State, op, Phone, "hello", reply, clock)} :
          /\ Becomes(got.S)
          /\ last' = [op |-> "gateway", call |-> op, reply |-> reply, at |-> clock,
                      result |-> got.result]
    /\ UNCHANGED <<clock, ticks, budget, inflight>>

GatewayInit ==
    /\ users = <<>>
    /\ tickets = <<>>
    /\ msgs = <<>>
    /\ counter = <<>>
    /\ interests = <<>>
    /\ logs = <<>>
    /\ sent = <<>>
    /\ token \in BOOLEAN
    /\ clock = 0
    /\ ticks = 0
    /\ api_calls = 0
    /\ budget = [webhooks |-> 0, ticks |-> 0, api_calls |-> GatewayCalls]
    /\ inflight = <<>>
    /\ last = NoRequest

GatewayNext == \E op \in GwOps, reply \in ProviderReplies : InvokeGateway(op, reply)

GatewaySpec == GatewayInit /\ [][GatewayNext]_vars

(***************************************************************************)
(* Retries: every request that calls the gateway, with a provider that     *)
(* accepts or fails each call.                                             *)
(***************************************************************************)

\* The provider's answers to the first and the second gateway call
RetryAnswers == {<<"ok", "ok">>, <<"error", "refused">>}

RetryInit == Start(RetryWebhooks, 0, RetryApiCalls)

RetryNext ==
    \/ \E text \in LifeTexts, answers \in RetryAnswers :
            UserMessageAnswered(text, answers[1], answers[2])
    \/ \E t \in 1..Len(tickets), answer \in {"ok", "error"} : CounsellorReply(t, answer)
    \/ \E t \in 1..Len(tickets), answers \in RetryAnswers :
            CounsellorMediaAnswered(t, answers[1], answers[2])
    \/ \E t \in 1..Len(tickets) : UpdateStatus(t, "resolved", 0, <<"error">>)

RetrySpec == RetryInit /\ [][RetryNext]_vars

(***************************************************************************)
(* Status updates: a ticket is opened and answered, and a counsellor sets  *)
(* its status through PATCH /api/tickets/{id}/status, whose status field   *)
(* is any string.                                                          *)
(***************************************************************************)

StatusTexts == {"raise a concern", "my invoice is wrong", "yes, resolved"}

\* The statuses a counsellor sends: the four of the lifecycle and another
PatchStatuses == {"pending", "in_progress", "awaiting", "resolved", "closed"}

StatusInit == Start(StatusWebhooks, 0, StatusApiCalls)

StatusNext ==
    \/ \E text \in StatusTexts : UserMessage(text)
    \/ \E t \in 1..Len(tickets) : CounsellorReply(t, "ok")
    \/ \E t \in 1..Len(tickets), status \in PatchStatuses : CounsellorStatus(t, status)

StatusSpec == StatusInit /\ [][StatusNext]_vars

(***************************************************************************)
(* The reply and the resolution of one ticket: a ticket is opened, and a   *)
(* counsellor's reply and the user's messages are handled at the same time *)
(* by two workers.                                                         *)
(***************************************************************************)

RaceTexts == {"raise a concern", "my invoice is wrong"}

\* The user opens a ticket; nothing else is being handled
OpenTicket(text) ==
    /\ inflight = <<>>
    /\ tickets = <<>>
    /\ UserMessage(text)

\* A counsellor posts a reply to ticket t while other requests are being
\* handled
ArriveReply(t) ==
    /\ api_calls < budget.api_calls
    /\ api_calls' = api_calls + 1
    /\ inflight' = Append(inflight, ApiRequest("reply", t, "please check your inbox", 0,
                                                FALSE, <<"ok">>))
    /\ UNCHANGED <<users, tickets, msgs, counter, interests, logs, sent, token, clock, ticks,
                   budget, last>>

RaceInit == Start(RaceWebhooks, 0, RaceApiCalls)

RaceNext ==
    \/ \E text \in RaceTexts : OpenTicket(text)
    \/ tickets # <<>> /\ Arrive(Inbound(Phone, "yes, resolved", FreshId))
    \/ \E t \in 1..Len(tickets) : ArriveReply(t)
    \/ \E i \in 1..Len(inflight) : Advance(i)

RaceSpec == RaceInit /\ [][RaceNext]_vars

(***************************************************************************)
(* The awaiting marker's lifetime: between a button and the user's next    *)
(* text the provider reports a message of the bot or a delivery, a         *)
(* counsellor replies or sets a status, or more than a day goes by; the    *)
(* next text is a greeting, a short text, a satisfaction phrase or an      *)
(* email address.                                                          *)
(***************************************************************************)

MarkerTexts ==
    {"raise a concern", "yes, resolved", "my mail is a@b.co"} \cup CasualTexts

\* More than the 24 hours of the provider's session window
LongWait == WindowHours * 3600 + 60

\* The identity of Phone is awaiting a category's first text
MarkerIsSet == users # <<>> /\ users[1].awaiting_ticket_type # None

MarkerInit == Start(MarkerWebhooks, MarkerTicks, MarkerApiCalls)

MarkerNext ==
    \/ \E text \in MarkerTexts : UserMessage(text)
    \/ MarkerIsSet /\ Tick(LongWait)
    \/ MarkerIsSet /\ BotMessage("Welcome to the Iron Lady platform", [owner |-> JBool(TRUE)])
    \/ MarkerIsSet /\ \E m \in 1..Len(msgs) : DeliveryStatus("sentMessageREAD", m)
    \/ MarkerIsSet /\ \E t \in 1..Len(tickets) : CounsellorReply(t, "ok")
    \/ MarkerIsSet /\ \E t \in 1..Len(tickets) : CounsellorStatus(t, "in_progress")

MarkerSpec == MarkerInit /\ [][MarkerNext]_vars

(***************************************************************************)
(* Delivery reports: a user opens a ticket, a counsellor replies, and the  *)
(* provider reports what became of the replies, in any order and more than *)
(* once.                                                                   *)
(***************************************************************************)

DeliveryEvents == {"sentMessageDELIVERED", "sentMessageREAD", "templateMessageFailed", "sent"}

DeliveryInit == Start(DeliveryWebhooks, DeliveryTicks, DeliveryApiCalls)

DeliveryNext ==
    \/ Tick(60)
    \/ \E text \in WindowTexts : UserMessage(text)
    \/ \E t \in 1..Len(tickets) : CounsellorReply(t, "ok")
    \/ \E event \in DeliveryEvents, m \in 1..Len(msgs) : DeliveryStatus(event, m)

DeliverySpec == DeliveryInit /\ [][DeliveryNext]_vars

(***************************************************************************)
(* Two identities: each presses a button, sends a text and answers the     *)
(* satisfaction question, one webhook after the other in any order.        *)
(***************************************************************************)

IsolationTexts == {"raise a concern", "my invoice is wrong", "yes, resolved"}

\* The user with the phone number phone sends a message
UserMessageFrom(phone, text) == Webhook(Inbound(phone, text, FreshId), 0, FALSE, <<>>)

IsolationInit == Start(IsolationWebhooks, 0, 0)

IsolationNext == \E phone \in Phones, text \in IsolationTexts : UserMessageFrom(phone, text)

IsolationSpec == IsolationInit /\ [][IsolationNext]_vars

(***************************************************************************)
(* Crashes: one webhook at a time is handled step by step, and the worker  *)
(* may die between any two steps.  What it has committed stays; what it    *)
(* has not done yet is never done.                                         *)
(***************************************************************************)

\* The worker handling the i-th request in flight dies
Crash(i) ==
    /\ inflight' = SubSeq(inflight, 1, i - 1) \o SubSeq(inflight, i + 1, Len(inflight))
    /\ last' = [NoRequest EXCEPT !.op = "crashed", !.data = inflight[i].data, !.at = clock]
    /\ UNCHANGED <<users, tickets, msgs, counter, interests, logs, sent, token, clock, ticks,
                   api_calls, budget>>

CrashInit == Start(CrashWebhooks, 0, 0)

CrashNext ==
    \/ \E text \in WindowTexts : inflight = <<>> /\ Arrive(Inbound(Phone, text, FreshId))
    \/ \E i \in 1..Len(inflight) : Advance(i)
    \/ \E i \in 1..Len(inflight) : Crash(i)

CrashSpec == CrashInit /\ [][CrashNext]_vars

(***************************************************************************)
(* Properties of the ticket lifecycle                                      *)
(***************************************************************************)

\* The tickets of user u in a non-terminal status
ActiveTicketsOf(u) ==
    {t \in 1..Len(tickets) : tickets[t].user_id = u /\ tickets[t].status \in ActiveStatuses}

\* This step is the delivery of one webhook: its log row is the last one
IsDelivery == Len(logs') = Len(logs) + 1

\* The body of the webhook this step delivers
Delivered == logs'[Len(logs')].raw_data

\* This step delivers an incoming message with the text `text` from user u
IsMessageFrom(u, text) ==
    /\ IsDelivery
    /\ last'.op = "webhook"
    /\ last'.text = text
    /\ u \in 1..Len(users)
    /\ users[u].phone_number = Normalized(Delivered.waId.v)

\* The transcript of ticket t: the ids of its messages
Transcript(t) == {m \in 1..Len(msgs) : msgs[m].ticket_id = t}

\* C1: no identity owns two tickets whose status is pending, in_progress or
\* awaiting at the same time.
C1_OneActiveTicketPerIdentity ==
    \A u \in 1..Len(users) : Cardinality(ActiveTicketsOf(u)) <= 1

\* C2: a delivery whose provider message id has been delivered before
\* changes no identity, ticket or transcript and sends nothing.
C2_RedeliveryIsNoOp ==
    [][(IsDelivery /\ \E i \in 1..Len(logs) : logs[i].raw_data.id = Delivered.id)
        => /\ users' = users
           /\ tickets' = tickets
           /\ msgs' = msgs
           /\ sent' = sent]_vars

\* A text that matches no button of the menus
NonMenu(text) ==
    /\ ~IsQueryButton(text)
    /\ ~IsConcernButton(text)
    /\ ~IsChatbotButton(text)

\* C3: when a non-menu text follows the query button of an identity, that
\* identity then has exactly one open ticket: category query, status
\* pending, the text verbatim as initial message.
C3_QueryThenTextGivesOneTicket ==
    [][\A u \in 1..Len(users) : \A text \in Texts :
        (/\ IsMessageFrom(u, text)
         /\ NonMenu(text)
         /\ users[u].awaiting_ticket_type = "query")
        => \E t \in 1..Len(tickets') :
              /\ \A o \in 1..Len(tickets') :
                    (tickets'[o].user_id = u /\ tickets'[o].status \in ActiveStatuses) <=> o = t
              /\ tickets'[t].category = "query"
              /\ tickets'[t].status = "pending"
              /\ tickets'[t].initial_message = text]_vars

\* The texts of the webhooks delivered so far, in order
DeliveredTexts == [i \in 1..Len(logs) |-> logs[i].raw_data.text.v]

\* C4: from a fresh identity and with no counsellor acting, after "raise a
\* concern" the awaiting marker is concern; after "my invoice is wrong" next
\* there is one ticket, category concern, status pending, that text as
\* initial message; after "yes, resolved" next the ticket is resolved and
\* has_active_ticket is cleared.
C4_ConcernScenario ==
    api_calls = 0 =>
        /\ DeliveredTexts = <<"raise a concern">>
            => users[1].awaiting_ticket_type = "concern"
        /\ DeliveredTexts = <<"raise a concern", "my invoice is wrong">>
            => /\ Len(tickets) = 1
               /\ tickets[1].user_id = 1
               /\ tickets[1].category = "concern"
               /\ tickets[1].initial_message = "my invoice is wrong"
               /\ tickets[1].status = "pending"
        /\ DeliveredTexts = <<"raise a concern", "my invoice is wrong", "yes, resolved">>
            => /\ Len(tickets) = 1
               /\ tickets[1].status = "resolved"
               /\ ~users[1].has_active_ticket

\* The scenario of C4 has run to its end, a minute passing on the way
C4_ScenarioRan ==
    /\ api_calls = 0
    /\ ticks = 1
    /\ DeliveredTexts = <<"raise a concern", "my invoice is wrong", "yes, resolved">>
    /\ tickets[1].status = "resolved"
    /\ tickets[1].resolved_at = 60

\* C5: a delivery changes neither the status, nor the resolved timestamp,
\* nor the transcript of a ticket that is resolved.
C5_ResolvedIsTerminal ==
    [][IsDelivery =>
        \A t \in 1..Len(tickets) :
            tickets[t].status = "resolved" =>
                /\ tickets'[t].status = "resolved"
                /\ tickets'[t].resolved_at = tickets[t].resolved_at
                /\ {m \in 1..Len(msgs') : msgs'[m].ticket_id = t} = Transcript(t)
                /\ \A m \in Transcript(t) : msgs'[m] = msgs[m]]_vars

\* A message has been delivered later than the resolution of a ticket
C5_DeliveredAfterResolution ==
    \E t \in 1..Len(tickets) :
        /\ tickets[t].status = "resolved"
        /\ last.op = "webhook"
        /\ last.at > tickets[t].resolved_at

\* C6: the delivery of a text that matches a chatbot button creates no
\* ticket, changes no ticket and no transcript, and sends nothing.
C6_ChatbotButtonIsInert ==
    [][\A text \in Texts :
        (IsDelivery /\ last'.op = "webhook" /\ last'.text = text /\ IsChatbotButton(text))
        => /\ tickets' = tickets
           /\ msgs' = msgs
           /\ sent' = sent]_vars

\* C8: the provider receives no text twice for one phone within 60
\* seconds.
C8_OutboundTextDedup ==
    \A i, j \in 1..Len(sent) :
        (/\ i < j
         /\ sent[i].op = "text"
         /\ sent[j].op = "text"
         /\ sent[i].phone = sent[j].phone
         /\ sent[i].body = sent[j].body)
        => sent[j].at - sent[i].at >= 60

(***************************************************************************)
(* Properties of the webhook endpoint under failures                       *)
(***************************************************************************)

\* C7: every webhook is answered with HTTP 200 and a status tag.
C7_WebhookAlwaysAnswers200 ==
    last.op = "webhook" => (last.resp.code = 200 /\ last.resp.status # None)

(***************************************************************************)
(* Properties of the reply window                                          *)
(***************************************************************************)

\* This step is a counsellor's reply to ticket t
IsReplyTo(t) ==
    /\ api_calls' = api_calls + 1
    /\ last'.op \in {"reply", "reply_media"}
    /\ last'.ticket_id = t

\* The seconds since the user's last message on ticket t
Elapsed(t) ==
    clock - (IF tickets[t].last_user_message_at # NoTime
             THEN tickets[t].last_user_message_at ELSE tickets[t].created_at)

\* C9: a reply to a ticket that is not resolved is refused with nothing sent
\* or stored when more than 24 hours have passed since the user's last
\* message (the ticket's creation when there is none), and is sent to the
\* user's phone when 24 hours or less have passed.
C9_ReplyWindow ==
    [][\A t \in 1..Len(tickets) :
        (IsReplyTo(t) /\ tickets[t].status # "resolved") =>
            /\ Elapsed(t) > 24 * 3600 =>
                  /\ last'.resp.code = 400
                  /\ sent' = sent
                  /\ tickets' = tickets
                  /\ msgs' = msgs
            /\ Elapsed(t) <= 24 * 3600 =>
                  /\ last'.resp.code \in {200, 500}
                  /\ Len(sent') > Len(sent)
                  /\ sent'[Len(sent) + 1].phone = users[tickets[t].user_id].phone_number
                  /\ sent'[Len(sent) + 1].op \in {"buttons", "media"}
                  /\ last'.resp.code = 200 =>
                        /\ Len(msgs') = Len(msgs) + 1
                        /\ msgs'[Len(msgs')].ticket_id = t
                        /\ msgs'[Len(msgs')].direction = "outgoing"]_vars

\* A reply 23h59m after the user's last message went out, and one 24h01m
\* after it has just been refused
C9_AcceptedThenRefused ==
    \E t \in 1..Len(tickets) :
        /\ \E m \in Transcript(t) :
              /\ msgs[m].direction = "outgoing"
              /\ msgs[m].created_at - tickets[t].last_user_message_at = 86340
        /\ last.op \in {"reply", "reply_media"}
        /\ last.ticket_id = t
        /\ last.resp.code = 400
        /\ last.at - tickets[t].last_user_message_at = 86460

(***************************************************************************)
(* Properties of concurrent deliveries                                     *)
(***************************************************************************)

\* The string s starts with the string p
HasPrefix(s, p) == Len(s) >= Len(p) /\ SubSeq(s, 1, Len(p)) = p

\* The i-th webhook created a ticket
CreatedTicket(i) == HasPrefix(logs[i].action_taken, "ticket_created_")

\* The i-th webhook changed a ticket or a transcript, or sent a message
Processed(i) ==
    \E p \in {"ticket_created_", "ticket_resolved_", "need_more_help_", "ticket_followup_"} :
        HasPrefix(logs[i].action_taken, p)

\* C10: of the deliveries of one provider message id, at most one changes
\* tickets or sends messages.
C10_OneDeliveryPerMessageId ==
    \A i, j \in 1..Len(logs) :
        (i < j /\ logs[i].raw_data.id = logs[j].raw_data.id) => ~(Processed(i) /\ Processed(j))

\* Two deliveries of one provider message id have each created a ticket
C10_TwoTicketsFromOneMessage ==
    \E i, j \in 1..Len(logs) :
        /\ i < j
        /\ logs[i].raw_data.id = logs[j].raw_data.id
        /\ CreatedTicket(i)
        /\ CreatedTicket(j)

(***************************************************************************)
(* Properties of a webhook that stops half way                             *)
(***************************************************************************)

\* C11: when no webhook is being handled, every ticket in the store has
\* its first transcript message and its owner is flagged as having an
\* active ticket (no ticket is ever closed here): a webhook that stopped
\* half way has left all of its ticket or nothing.
C11_TicketCreationIsAtomic ==
    inflight = <<>> =>
        \A t \in 1..Len(tickets) :
            /\ Transcript(t) # {}
            /\ users[tickets[t].user_id].has_active_ticket

(***************************************************************************)
(* Properties of the gateway                                               *)
(***************************************************************************)

\* A reply that is a failure of the provider
IsFailure(reply) ==
    \/ reply.kind # "http"
    \/ reply.code # 200
    \/ ~IsDict(reply.body)

\* C12: whatever operation is invoked, a provider failure (a status other
\* than 200, a body that is not a JSON object, a timeout, a network error)
\* or a missing token comes back to the caller as a result with success
\* false and an error text, and nothing is sent without a token.
C12_GatewayReportsFailure ==
    last.op = "gateway" =>
        /\ last.result.success \in BOOLEAN
        /\ (IsFailure(last.reply) \/ ~token) =>
               /\ last.result.success = FALSE
               /\ last.result.error # None
        /\ ~token => sent = <<>>

\* The buttons operation got status 500 with a body that says result true,
\* with the token configured, and reported a failure
C12_FailureMet ==
    /\ last.op = "gateway"
    /\ last.call = "buttons"
    /\ token
    /\ last.reply.kind = "http"
    /\ last.reply.code = 500
    /\ IsDict(last.reply.body)
    /\ EqTrue(GetN(last.reply.body.v, "result"))
    /\ last.result.success = FALSE
    /\ Len(sent) = GatewayCalls

\* C13: a webhook whose notifications the provider fails (ticket created
\* and operator assignment, thank-you and unassignment, the more-help
\* prompt, the still-in-progress acknowledgement) ends with the identities,
\* tickets, transcript, audit log and response it ends with when the token
\* is configured and every call succeeds.
C13_NotificationFailureIsLocal ==
    [][IsDelivery =>
        \A ok \in {Run([State EXCEPT !.token = TRUE],
                       WebhookRequest(Delivered, 0, FALSE, <<>>), clock)} :
            /\ users' = ok.S.users
            /\ tickets' = ok.S.tickets
            /\ msgs' = ok.S.msgs
            /\ logs' = ok.S.logs
            /\ last'.resp = ok.r.resp
            /\ last'.action = ok.r.action]_vars

\* After the button, a text, "Need More Help" and another text, the last
\* webhook's acknowledgement having been refused: the ticket is pending
\* again with three transcript entries and the response is followup_added
C13_FailedAcknowledgement ==
    /\ token
    /\ Len(logs) = 4
    /\ last.op = "webhook"
    /\ last.answers = <<"refused", "ok">>
    /\ last.resp = [code |-> 200, status |-> "followup_added"]
    /\ Len(tickets) = 1
    /\ tickets[1].status = "pending"
    /\ Cardinality(Transcript(1)) = 3
    /\ sent[Len(sent)].op = "text"

(***************************************************************************)
(* Properties of a counsellor's reply                                      *)
(***************************************************************************)

\* The reply of this step passed the checks before the gateway call
IsAcceptedReplyTo(t) ==
    /\ IsReplyTo(t)
    /\ tickets[t].status # "resolved"
    /\ ~WindowExpired(tickets[t], clock)

\* The provider answered this step's first gateway call with a success
GatewaySucceeded == token /\ last'.answers[1] \in {"ok", "ok_noid"}

C19_SuccessfulReply ==
    [][\A t \in 1..Len(tickets) :
        (IsAcceptedReplyTo(t) /\ GatewaySucceeded) =>
            /\ last'.resp.code = 200
            /\ tickets'[t] = [tickets[t] EXCEPT !.status = "in_progress",
                                                !.last_counsellor_reply_at = clock,
                                                !.updated_at = clock]
            /\ \A o \in 1..Len(tickets) : o # t => tickets'[o] = tickets[o]
            /\ Len(tickets') = Len(tickets)
            /\ Len(msgs') = Len(msgs) + 1
            /\ SubSeq(msgs', 1, Len(msgs)) = msgs
            /\ msgs'[Len(msgs')].ticket_id = t
            /\ msgs'[Len(msgs')].direction = "outgoing"
            /\ msgs'[Len(msgs')].message_text = last'.text
            /\ msgs'[Len(msgs')].wati_message_id =
                   (IF last'.answers[1] = "ok" THEN ProviderId(State) ELSE None)
            /\ users' = users]_vars

\* A pending ticket has just become in_progress by a reply a minute after
\* its creation
C19_PendingBecameInProgress ==
    /\ last.op = "reply"
    /\ last.resp.code = 200
    /\ last.at = 60
    /\ tickets[last.ticket_id].status = "in_progress"
    /\ tickets[last.ticket_id].last_counsellor_reply_at = 60
    /\ tickets[last.ticket_id].last_user_message_at = 0
    /\ \A m \in Transcript(last.ticket_id) :
          msgs[m].direction = "outgoing" => msgs[m].wati_message_id # None

(***************************************************************************)
(* Properties of the classification of inbound texts                       *)
(***************************************************************************)

\* The gateway requests this step has made
NewlySent == SubSeq(sent', Len(sent) + 1, Len(sent'))

\* C15: a text that matches a satisfaction phrase is handled as that
\* satisfaction answer even when it matches a button phrase too: from an
\* identity with an active ticket and no awaiting marker, a yes-text is
\* answered ticket_resolved and a no-text need_more_help.
C15_SatisfactionOutranksButtons ==
    [][\A u \in 1..Len(users) : \A text \in ClassifyTexts :
        (/\ IsMessageFrom(u, text)
         /\ ActiveTicketsOf(u) # {}
         /\ users[u].awaiting_ticket_type = None)
        => /\ Satisfaction(text) = SatYes => last'.resp.status = "ticket_resolved"
           /\ Satisfaction(text) = SatNo => last'.resp.status = "need_more_help"]_vars

\* C16: when a yes-text arrives from an identity with an active ticket,
\* whatever its awaiting marker, one of its active tickets becomes resolved
\* with resolved_at now, has_active_ticket is cleared, and a thank-you text
\* and an unassignment are requested of the gateway.
C16_YesResolvesActiveTicket ==
    [][\A u \in 1..Len(users) : \A text \in Texts :
        (/\ IsMessageFrom(u, text)
         /\ Satisfaction(text) = SatYes
         /\ ActiveTicketsOf(u) # {})
        => /\ \E t \in ActiveTicketsOf(u) :
                 /\ tickets'[t].status = "resolved"
                 /\ tickets'[t].resolved_at = clock
           /\ ~users'[u].has_active_ticket
           /\ \E i \in 1..Len(NewlySent) : NewlySent[i].op = "text"
           /\ \E i \in 1..Len(NewlySent) : NewlySent[i].op = "unassign"]_vars

\* C17: a no-text from an identity whose active tickets are all awaiting
\* already (and which has no awaiting marker) changes no ticket, appends no
\* transcript entry and sends nothing.
C17_SecondNoIsNoOp ==
    [][\A u \in 1..Len(users) : \A text \in Texts :
        (/\ IsMessageFrom(u, text)
         /\ Satisfaction(text) = SatNo
         /\ ~IsChatbotButton(text)
         /\ users[u].awaiting_ticket_type = None
         /\ ActiveTicketsOf(u) # {}
         /\ \A t \in ActiveTicketsOf(u) : tickets[t].status = "awaiting")
        => /\ tickets' = tickets
           /\ msgs' = msgs
           /\ sent' = sent]_vars

\* What the follow-up rule does with the text of user u delivered by this
\* step: one transcript entry on an active ticket of u, its
\* last_user_message_at now, pending and a "still in progress" text when it
\* was awaiting, else the status kept and nothing sent; no new ticket
IsFollowUp(u, text) ==
    /\ Len(tickets') = Len(tickets)
    /\ Len(msgs') = Len(msgs) + 1
    /\ \E t \in ActiveTicketsOf(u) :
          /\ msgs'[Len(msgs')].ticket_id = t
          /\ msgs'[Len(msgs')].message_text = text
          /\ tickets'[t].last_user_message_at = clock
          /\ IF tickets[t].status = "awaiting"
             THEN /\ tickets'[t].status = "pending"
                  /\ Len(NewlySent) = 1
                  /\ NewlySent[1].op = "text"
                  /\ NewlySent[1].body = StillInProgressText(tickets[t].ticket_number)
             ELSE /\ tickets'[t].status = tickets[t].status
                  /\ sent' = sent

\* C18: a text that is neither a satisfaction answer nor a chatbot button,
\* from an identity with an active ticket, is a follow-up: one transcript
\* entry, last_user_message_at updated, pending and an acknowledgement if
\* and only if the ticket was awaiting.
C18_FollowUp ==
    [][\A u \in 1..Len(users) : \A text \in Texts :
        (/\ IsMessageFrom(u, text)
         /\ Satisfaction(text) = SatNone
         /\ ~IsChatbotButton(text)
         /\ ActiveTicketsOf(u) # {})
        => IsFollowUp(u, text)]_vars

\* The follow-up rule where the code reaches it: a text that is no button
\* either, from an identity with an active ticket and no awaiting marker
FollowUpWithoutMarker ==
    [][\A u \in 1..Len(users) : \A text \in Texts :
        (/\ IsMessageFrom(u, text)
         /\ Satisfaction(text) = SatNone
         /\ NonMenu(text)
         /\ users[u].awaiting_ticket_type = None
         /\ ActiveTicketsOf(u) # {})
        => IsFollowUp(u, text)]_vars

\* C20: a counsellor's reply to a resolved ticket, or to a ticket whose
\* user wrote last more than 24 hours ago, is answered 400 with no request
\* made to the provider and tickets, transcript and identities as before.
C20_LateReplyRejected ==
    [][\A t \in 1..Len(tickets) :
        (IsReplyTo(t) /\ (tickets[t].status = "resolved" \/ Elapsed(t) > 24 * 3600))
        => /\ last'.resp.code = 400
           /\ sent' = sent
           /\ tickets' = tickets
           /\ msgs' = msgs
           /\ users' = users]_vars

\* A media reply to a ticket resolved a minute ago has just been refused
C20_ReplyToResolvedRefused ==
    /\ last.op = "reply_media"
    /\ last.resp = [code |-> 400, status |-> "Cannot reply to resolved ticket"]
    /\ tickets[last.ticket_id].status = "resolved"
    /\ last.at - tickets[last.ticket_id].resolved_at = 60
    /\ \A i \in 1..Len(sent) : sent[i].op # "media"

(***************************************************************************)
(* Properties of the intake                                                *)
(***************************************************************************)

\* This step delivers the text `text` as a message of user u, not of the bot
IsInboundFrom(u, text) ==
    /\ IsDelivery
    /\ "waId" \in DOMAIN Delivered
    /\ IsMessageFrom(u, text)
    /\ ~IsOutgoing(Delivered)

\* C21: when a text that is no button arrives from an identity whose
\* awaiting marker is query or concern, one ticket is added with the marker
\* as category, status pending and the text as initial message; one
\* incoming transcript message with that text is added to it; the
\* identity's marker is cleared and its has_active_ticket set.
C21_TicketCreated ==
    [][\A u \in 1..Len(users) : \A text \in IntakeTexts :
        (/\ IsInboundFrom(u, text)
         /\ NonMenu(text)
         /\ users[u].awaiting_ticket_type \in {"query", "concern"})
        => /\ Len(tickets') = Len(tickets) + 1
           /\ SubSeq(tickets', 1, Len(tickets)) = tickets
           /\ tickets'[Len(tickets')].user_id = u
           /\ tickets'[Len(tickets')].category = users[u].awaiting_ticket_type
           /\ tickets'[Len(tickets')].status = "pending"
           /\ tickets'[Len(tickets')].initial_message = text
           /\ Len(msgs') = Len(msgs) + 1
           /\ SubSeq(msgs', 1, Len(msgs)) = msgs
           /\ msgs'[Len(msgs')].ticket_id = Len(tickets')
           /\ msgs'[Len(msgs')].direction = "incoming"
           /\ msgs'[Len(msgs')].message_text = text
           /\ users'[u].awaiting_ticket_type = None
           /\ users'[u].has_active_ticket]_vars

\* A query ticket has just been created from a free text
C21_QueryTicketCreated ==
    /\ last.op = "webhook"
    /\ last.resp.status = "ticket_created"
    /\ last.text = "my invoice is wrong"
    /\ Len(tickets) = 1
    /\ tickets[1].category = "query"
    /\ Cardinality(Transcript(1)) = 1
    /\ users[1].has_active_ticket

\* C22: the number of tickets grows only in the handling of a message that
\* is not outgoing and comes from an identity whose awaiting marker is query
\* or concern, and then by one; messages the bot sent, delivery-status
\* events, counsellor replies, status updates and messages of identities
\* without a marker leave the number of tickets as it is, and no step removes
\* or replaces a ticket row's identity.
C22_OnlyCreationPath ==
    [][/\ Len(tickets') >= Len(tickets)
       /\ Len(tickets') # Len(tickets)
            => /\ Len(tickets') = Len(tickets) + 1
               /\ IsDelivery
               /\ "waId" \in DOMAIN Delivered
               /\ ~IsOutgoing(Delivered)
               /\ \E u \in 1..Len(users) :
                    /\ users[u].phone_number = Normalized(Delivered.waId.v)
                    /\ users[u].awaiting_ticket_type \in {"query", "concern"}
                    /\ tickets'[Len(tickets')].user_id = u]_vars

\* A message the bot sent has been reported for an identity whose marker is
\* set, and there is no ticket
C22_BotMessageWhileAwaiting ==
    /\ last.op = "webhook"
    /\ IsOutgoing(last.data)
    /\ last.resp.status = "processed"
    /\ last.text = "Welcome to the Iron Lady platform"
    /\ Len(users) = 1
    /\ users[1].awaiting_ticket_type = "query"
    /\ tickets = <<>>

\* The phone number of a body (lines 617-618), the empty string for none
WaNumberOf(data) == POr(POr(GetN(data, "waId"), GetN(data, "waNumber")), JStr(""))

\* The body has no phone number
NoPhone(data) == ~Truthy(WaNumberOf(data))

\* The body has no text
NoText(data) == MessageText(data) = JStr("")

\* What the transcript says: each message without its delivery fields
TranscriptTexts(ms) ==
    [m \in 1..Len(ms) |-> [ticket_id |-> ms[m].ticket_id, direction |-> ms[m].direction,
                           message_text |-> ms[m].message_text]]

\* C27: the delivery of a webhook without a phone number, with an outgoing
\* flag or without a text adds its log row and no ticket, changes no ticket,
\* no transcript text and no identity's awaiting marker, gives no identity it
\* adds a marker, and sends nothing; without a phone number it adds no
\* identity either.
C27_IgnorableWebhook ==
    [][(/\ IsDelivery
        /\ last'.op = "webhook"
        /\ (NoPhone(Delivered) \/ IsOutgoing(Delivered) \/ NoText(Delivered)))
       => /\ tickets' = tickets
          /\ TranscriptTexts(msgs') = TranscriptTexts(msgs)
          /\ Len(users') >= Len(users)
          /\ \A u \in 1..Len(users') :
                users'[u].awaiting_ticket_type =
                    IF u <= Len(users) THEN users[u].awaiting_ticket_type ELSE None
          /\ sent' = sent
          /\ last'.resp.code = 200
          /\ NoPhone(Delivered) => users' = users]_vars

\* A text without a phone number has been ignored while a ticket is pending
C27_NoPhoneIgnored ==
    /\ last.op = "webhook"
    /\ NoPhone(last.data)
    /\ last.text = "raise a concern"
    /\ last.resp.status = "ignored"
    /\ Len(users) = 1
    /\ Len(tickets) = 1
    /\ tickets[1].status = "pending"

\* The marker a button text stands for (lines 731 and 739: the query
\* buttons are tested first), None for a text that is neither button
MarkerOf(text) ==
    IF IsQueryButton(text) THEN "query"
    ELSE IF IsConcernButton(text) THEN "concern"
    ELSE None

\* The delivery of a button adds no ticket, changes none and sends nothing,
\* and the identity's marker is the button's afterwards
C23_ButtonOnlySetsMarker ==
    [][\A u \in 1..Len(users) : \A text \in IntakeTexts :
        (IsInboundFrom(u, text) /\ MarkerOf(text) # None)
        => /\ users'[u].awaiting_ticket_type = MarkerOf(text)
           /\ tickets' = tickets
           /\ msgs' = msgs
           /\ sent' = sent]_vars

\* C23: a query or concern button sets the identity's awaiting marker to
\* query or concern, adds no ticket, changes none and sends nothing, and it
\* sets the marker only while the identity has no active ticket.
C23_ButtonSetsMarkerWhileIdle ==
    [][\A u \in 1..Len(users) : \A text \in IntakeTexts :
        (IsInboundFrom(u, text) /\ MarkerOf(text) # None)
        => /\ tickets' = tickets
           /\ msgs' = msgs
           /\ sent' = sent
           /\ IF ActiveTicketsOf(u) = {}
                THEN users'[u].awaiting_ticket_type = MarkerOf(text)
                ELSE users'[u].awaiting_ticket_type = users[u].awaiting_ticket_type]_vars

\* An identity with a pending ticket has a marker
C23_MarkerBesideActiveTicket ==
    /\ last.op = "webhook"
    /\ last.resp.status = "awaiting_query"
    /\ Len(users) = 1
    /\ users[1].awaiting_ticket_type = "query"
    /\ ActiveTicketsOf(1) # {}

(***************************************************************************)
(* Properties of the ticket numbering                                      *)
(***************************************************************************)

\* The first texts that have been delivered
FirstTextLogs == {i \in 1..Len(logs) : MessageText(logs[i].raw_data) = JStr(FirstText)}

\* The requests in flight that hold a ticket number and have not inserted
\* their ticket yet
Numbered == {i \in 1..Len(inflight) : inflight[i].pc = "ticket"}

\* C24: two webhooks that create tickets at the same time for two identities
\* obtain different ticket numbers, neither obtains the number of a ticket
\* that exists, and when both have been answered each first text has its
\* ticket.
C24_NumberingIsAtomic ==
    /\ \A i, j \in Numbered : i # j => inflight[i].ticket_number # inflight[j].ticket_number
    /\ \A i \in Numbered : \A t \in 1..Len(tickets) :
            tickets[t].ticket_number # inflight[i].ticket_number
    /\ inflight = <<>> => Len(tickets) = Cardinality(FirstTextLogs)

\* Both identities' first texts have been answered and there is one ticket
C24_TicketLost ==
    /\ inflight = <<>>
    /\ Cardinality(FirstTextLogs) = 2
    /\ Len(tickets) = 1
    /\ last.resp.code = 500

(***************************************************************************)
(* Properties of the email capture                                         *)
(***************************************************************************)

\* C25: the email of an identity that has one is never changed: the first
\* address captured stays.
C25_EmailIsWriteOnce ==
    [][\A u \in 1..Len(users) :
        users[u].email # None => users'[u].email = users[u].email]_vars

\* An identity's email has been replaced by the address of a later message
C25_EmailReplaced ==
    /\ Len(users) = 1
    /\ users[1].email = "c@d.io"
    /\ \E i \in 1..Len(logs) : MessageText(logs[i].raw_data) = JStr("my mail is a@b.co")
    /\ last.text = "write to c@d.io"

\* C26: an inbound text with an email address gives an identity without an
\* email that address, whether the identity has an active ticket, an
\* awaiting marker or neither, and the status of every ticket that existed
\* stays as it was.
C26_EmailCapturedAlways ==
    [][\A u \in 1..Len(users) : \A text \in MailTexts :
        (IsInboundFrom(u, text) /\ users[u].email = None)
        => /\ users'[u].email = Email(text)
           /\ \A t \in 1..Len(tickets) : tickets'[t].status = tickets[t].status]_vars

\* A text with an email address has become a ticket's first message and the
\* identity has no email
C26_EmailMissedByTicket ==
    /\ last.op = "webhook"
    /\ last.text = "my mail is a@b.co"
    /\ last.resp.status = "ticket_created"
    /\ Len(users) = 1
    /\ users[1].email = None

(***************************************************************************)
(* Properties of the identities                                            *)
(***************************************************************************)

\* C28: no two identities have phone numbers that are the same once '+' and
\* spaces are removed, and a stored phone number has neither; this holds
\* while webhooks are being handled at the same time.
C28_OneIdentityPerPhone ==
    /\ \A u \in 1..Len(users) : users[u].phone_number = Normalized(users[u].phone_number)
    /\ \A u, v \in 1..Len(users) :
            Normalized(users[u].phone_number) = Normalized(users[v].phone_number) => u = v

\* Two first contacts of one number, written in two ways, have been handled
\* at the same time: one has added the identity and the other has failed on
\* the unique phone number
C28_SecondFirstContactRefused ==
    /\ inflight = <<>>
    /\ Len(users) = 1
    /\ last.error = "IntegrityError"
    /\ \E i, j \in 1..Len(logs) :
            /\ logs[i].raw_data.waId # logs[j].raw_data.waId
            /\ Normalized(logs[i].raw_data.waId.v) = Normalized(logs[j].raw_data.waId.v)

(***************************************************************************)
(* Properties of a webhook whose store write fails                         *)
(***************************************************************************)

\* A commit of the webhook answered last has failed
StoreWriteFailed ==
    /\ last.op = "webhook"
    /\ \/ last.error \in StoreErrors
       \/ last.resp.status \in StoreErrors \cup {"PendingRollbackError"}

\* C29: when a store write has failed in the handling of a webhook, the
\* webhook's log row has an outcome tag that starts with "error" and
\* processed false, and the provider has been answered with HTTP 200.
C29_StoreFailureIsRecorded ==
    StoreWriteFailed
    => /\ last.resp.code = 200
       /\ \E i \in 1..Len(logs) :
            /\ logs[i].raw_data = last.data
            /\ HasPrefix(logs[i].action_taken, "error")
            /\ ~logs[i].processed

\* A commit inside the try block has failed: the provider got HTTP 500 and
\* the webhook's log row has no outcome tag
C29_FailureLeftUnrecorded ==
    /\ last.op = "webhook"
    /\ last.error = "OperationalError"
    /\ last.resp = [code |-> 500, status |-> "PendingRollbackError"]
    /\ logs # <<>>
    /\ logs[Len(logs)].raw_data = last.data
    /\ logs[Len(logs)].action_taken = None
    /\ ~logs[Len(logs)].processed

(***************************************************************************)
(* Properties of the gateway calls of a request                            *)
(***************************************************************************)

\* The requests of operation op among the gateway requests this step made
NewlySentOf(op) == {k \in 1..Len(NewlySent) : NewlySent[k].op = op}

\* C30: one request (a webhook, a reply, a media reply, a status update)
\* makes at most one gateway request of each operation, whether the
\* provider accepts or fails it: no operation is transmitted again, and
\* what was sent before stays as it was.
C30_NoRetries ==
    [][/\ Len(sent') >= Len(sent)
       /\ SubSeq(sent', 1, Len(sent)) = sent
       /\ \A op \in GwOps : Cardinality(NewlySentOf(op)) <= 1]_vars

\* A media reply whose media call failed has made that one call, after the
\* two calls of the webhook that created the ticket, both failed
C30_FailedCallSentOnce ==
    /\ last.op = "reply_media"
    /\ last.answers = <<"error", "refused">>
    /\ Len(sent) = 3
    /\ sent[1].op = "assign"
    /\ sent[2].op = "text"
    /\ sent[3].op = "media"
    /\ \E i \in 1..Len(logs) : CreatedTicket(i)

(***************************************************************************)
(* Properties of the ticket status                                         *)
(***************************************************************************)

\* The four statuses of the lifecycle
TicketStatuses == ActiveStatuses \cup {"resolved"}

\* The tickets of user u whose status is not resolved
OpenTicketsOf(u) ==
    {t \in 1..Len(tickets) : tickets[t].user_id = u /\ tickets[t].status # "resolved"}

\* C31: an identity's has_active_ticket flag is true exactly when the
\* identity owns a ticket whose status is not resolved.
C31_FlagMatchesTickets ==
    \A u \in 1..Len(users) : users[u].has_active_ticket <=> OpenTicketsOf(u) # {}

\* A resolved ticket has been set to in_progress by a status update and its
\* owner's flag is false
C31_ReopenedWithoutFlag ==
    /\ last.op = "update_status"
    /\ last.text = "in_progress"
    /\ Len(tickets) = 1
    /\ tickets[1].status = "in_progress"
    /\ tickets[1].resolved_at >= 0
    /\ ~users[1].has_active_ticket

\* C33: every ticket's status is one of pending, in_progress, awaiting and
\* resolved, so that the active-ticket lookup finds every ticket that is not
\* resolved.
C33_StatusDomain ==
    /\ \A t \in 1..Len(tickets) : tickets[t].status \in TicketStatuses
    /\ \A u \in 1..Len(users) : OpenTicketsOf(u) = ActiveTicketsOf(u)

\* A ticket has a status outside the lifecycle and the lookup does not find
\* it
C33_StatusOutsideLifecycle ==
    /\ last.op = "update_status"
    /\ Len(tickets) = 1
    /\ tickets[1].status = "closed"
    /\ get_active_ticket_for_user(State, users[1].phone_number) = 0

(***************************************************************************)
(* Properties of a reply handled beside the user's resolution              *)
(***************************************************************************)

\* Ticket t is in progress although it has been resolved and its owner's
\* flag is cleared
ResolvedWrittenBack(t) ==
    /\ tickets[t].status = "in_progress"
    /\ tickets[t].resolved_at # NoTime
    /\ ~users[tickets[t].user_id].has_active_ticket

\* C32: a ticket that has been committed as resolved is never written back
\* to in_progress by a reply handled at the same time: no ticket is in
\* progress with resolved_at set and its owner's has_active_ticket false.
C32_ResolvedStaysResolved ==
    \A t \in 1..Len(tickets) : ~ResolvedWrittenBack(t)

\* The reply and the user's yes have both been answered successfully and the
\* ticket is in progress with resolved_at set
C32_ReplyOverwroteResolution ==
    /\ inflight = <<>>
    /\ last.op = "reply"
    /\ last.resp.code = 200
    /\ \E i \in 1..Len(logs) : HasPrefix(logs[i].action_taken, "ticket_resolved_")
    /\ Len(tickets) = 1
    /\ ResolvedWrittenBack(1)

(***************************************************************************)
(* Properties of the sequence of ticket numbers                            *)
(***************************************************************************)

\* The tickets created in the year y
TicketsOfYear(y) == {t \in 1..Len(tickets) : YearOf(tickets[t].created_at) = y}

\* The ticket number with the sequence number n of the year y
NumberOf(y, n) == "TKT-" \o NumStr(y) \o "-" \o Pad4(n)

\* C34: when no webhook is being handled, the counter of every year equals
\* the number of that year's tickets and their numbers are exactly those
\* from 1 to the counter, also after a failed ticket insert or a handling
\* that stopped after the increment.
C34_NumbersGapFree ==
    inflight = <<>> =>
        \A y \in DOMAIN counter :
            /\ counter[y] = Cardinality(TicketsOfYear(y))
            /\ {tickets[t].ticket_number : t \in TicketsOfYear(y)}
                    = {NumberOf(y, n) : n \in 1..counter[y]}

\* The only ticket of the year has the number 2: number 1 was issued to a
\* webhook that stopped before it inserted its ticket
C34_NumberOneMissing ==
    /\ inflight = <<>>
    /\ Len(tickets) = 1
    /\ tickets[1].ticket_number = NumberOf(BaseYear, 2)
    /\ counter[BaseYear] = 2

(***************************************************************************)
(* Properties of the awaiting marker's lifetime                            *)
(***************************************************************************)

\* This step delivers a message of user u that is not outgoing and has a text
IsInboundTextFrom(u) == \E text \in MarkerTexts : IsInboundFrom(u, text)

\* C35: while an identity's awaiting marker is set, a step that is not the
\* delivery of a text of that identity (a message the bot sent, a
\* delivery-status event, a counsellor's reply or status update, time going
\* by) leaves the marker and the tickets as they are; a button sets the
\* marker to the button's category; any other text, be it a greeting, a
\* text shorter than 3 characters, a satisfaction phrase or an email
\* address, and however late, adds a ticket with the marker as category and
\* the text as initial message, and clears the marker.
C35_MarkerStaysUntilTicket ==
    [][\A u \in 1..Len(users) :
        users[u].awaiting_ticket_type \in {"query", "concern"}
        => /\ Len(users') >= Len(users)
           /\ ~IsInboundTextFrom(u)
                => /\ users'[u].awaiting_ticket_type = users[u].awaiting_ticket_type
                   /\ Len(tickets') = Len(tickets)
           /\ \A text \in MarkerTexts :
                IsInboundFrom(u, text)
                => IF MarkerOf(text) # None
                    THEN /\ users'[u].awaiting_ticket_type = MarkerOf(text)
                         /\ Len(tickets') = Len(tickets)
                    ELSE /\ Len(tickets') = Len(tickets) + 1
                         /\ tickets'[Len(tickets')].user_id = u
                         /\ tickets'[Len(tickets')].category = users[u].awaiting_ticket_type
                         /\ tickets'[Len(tickets')].initial_message = text
                         /\ tickets'[Len(tickets')].status = "pending"
                         /\ users'[u].awaiting_ticket_type = None]_vars

\* More than a day after the button, and after the report of a message the
\* bot sent, the satisfaction phrase has opened the identity's first ticket
C35_LateSatisfactionOpenedTicket ==
    /\ last.op = "webhook"
    /\ last.text = "yes, resolved"
    /\ last.resp.status = "ticket_created"
    /\ clock >= LongWait
    /\ Len(logs) = 3
    /\ logs[2].is_outgoing
    /\ Len(tickets) = 1
    /\ tickets[1].initial_message = "yes, resolved"
    /\ tickets[1].category = "concern"
    /\ users[1].awaiting_ticket_type = None

(***************************************************************************)
(* Properties of delivery reports                                          *)
(***************************************************************************)

\* This step delivers a delivery-status event whose message id is that of
\* the ticket message m
IsStatusEventFor(m) ==
    /\ IsDelivery
    /\ last'.op = "webhook"
    /\ "id" \in DOMAIN Delivered
    /\ EventIn(GetN(Delivered, "eventType"), StatusEvents)
    /\ IsStr(Delivered.id)
    /\ TicketMessageIdByWatiId(State, Delivered.id.v) = m

\* The ticket message without its delivery fields
WithoutDelivery(msg) ==
    [msg EXCEPT !.delivery_status = None, !.delivered_at = NoTime, !.read_at = NoTime]

\* C36: the delivery of a delivery-status event whose message id is that of
\* a ticket message changes of that message only delivery_status,
\* delivered_at and read_at, and leaves every other ticket message, every
\* ticket, every identity, the counter and the messages sent as they are;
\* and no step removes a message from a transcript.
C36_StatusEventTouchesOneMessage ==
    [][/\ \A m \in 1..Len(msgs) :
            IsStatusEventFor(m)
            => /\ Len(msgs') = Len(msgs)
               /\ \A k \in 1..Len(msgs) : k # m => msgs'[k] = msgs[k]
               /\ WithoutDelivery(msgs'[m]) = WithoutDelivery(msgs[m])
               /\ tickets' = tickets
               /\ users' = users
               /\ counter' = counter
               /\ interests' = interests
               /\ sent' = sent
       /\ \A t \in 1..Len(tickets) : Transcript(t) \subseteq Transcript(t)']_vars

\* The second counsellor reply of a ticket has been reported read while the
\* first one is still as it was sent
C36_SecondReplyRead ==
    /\ last.op = "webhook"
    /\ last.resp.status = "processed"
    /\ last.action = "ticket_message_sentMessageREAD"
    /\ Len(msgs) = 3
    /\ msgs[3].delivery_status = "read"
    /\ msgs[3].read_at >= 0
    /\ msgs[2].direction = "outgoing"
    /\ msgs[2].delivery_status # "read"
    /\ msgs[2].read_at = NoTime

(***************************************************************************)
(* Properties of the separation of identities                              *)
(***************************************************************************)

\* This step delivers a webhook whose phone number is a
IsWebhookFor(a) ==
    /\ IsDelivery
    /\ last'.op = "webhook"
    /\ "waId" \in DOMAIN Delivered
    /\ IsStr(Delivered.waId)
    /\ Normalized(Delivered.waId.v) = a

\* The phone number of the identity that owns ticket t of the tickets ts
OwnerOf(ts, t) == users'[ts[t].user_id].phone_number

\* C37: the delivery of a webhook with the phone number a leaves every
\* identity with another phone number (its awaiting marker and
\* has_active_ticket flag with it), every ticket of such an identity and
\* every message of such a ticket as they are; the tickets and transcript
\* messages it adds belong to the identity of a, and every message it sends
\* is addressed to a.
C37_IdentitiesAreIsolated ==
    [][\A a \in Phones :
        IsWebhookFor(a)
        => /\ Len(users') >= Len(users)
           /\ \A u \in 1..Len(users) : users[u].phone_number # a => users'[u] = users[u]
           /\ \A u \in (Len(users) + 1)..Len(users') : users'[u].phone_number = a
           /\ Len(tickets') >= Len(tickets)
           /\ \A t \in 1..Len(tickets) : OwnerOf(tickets, t) # a => tickets'[t] = tickets[t]
           /\ \A t \in (Len(tickets) + 1)..Len(tickets') : OwnerOf(tickets', t) = a
           /\ Len(msgs') >= Len(msgs)
           /\ \A m \in 1..Len(msgs) :
                OwnerOf(tickets, msgs[m].ticket_id) # a => msgs'[m] = msgs[m]
           /\ \A m \in (Len(msgs) + 1)..Len(msgs') : OwnerOf(tickets', msgs'[m].ticket_id) = a
           /\ \A k \in 1..Len(NewlySent) : NewlySent[k].phone = a]_vars

\* The first text of the identity of Phone has opened its ticket while the
\* ticket of the identity of OtherPhone is pending, and each identity has
\* its own flag set and marker cleared
C37_TicketBesideOpenTicket ==
    /\ last.op = "webhook"
    /\ last.data.waId = JStr(Phone)
    /\ last.resp.status = "ticket_created"
    /\ Len(users) = 2
    /\ Len(tickets) = 2
    /\ users[tickets[1].user_id].phone_number = OtherPhone
    /\ users[tickets[2].user_id].phone_number = Phone
    /\ tickets[1].status = "pending"
    /\ \A u \in 1..2 : users[u].has_active_ticket /\ users[u].awaiting_ticket_type = None

=============================================================================
